---- MODULE Spec2Model ----
(***************************************************************************)
(* The MCP protocol engine of aws-macp-chat-bot: the persistent WebSocket  *)
(* server (src/local/mcp_server.py), the stateless Lambda host             *)
(* (src/lambda_function/mcp_lambda_handler.py) and the client's request    *)
(* correlator (src/local/mcp_client.py).                                   *)
(*                                                                         *)
(* Python dicts are functions over their key set, so "key in d" is         *)
(* k \in DOMAIN d and d.get(k, default) is Get(d, k, default).  A JSON id  *)
(* is a tagged value: [t |-> "int", v |-> 2] is the number 2 and           *)
(* [t |-> "str", v |-> "2"] the string "2"; None/null is NullId.           *)
(***************************************************************************)
EXTENDS Integers, Sequences, FiniteSets, TLC

(* ------------------------------ bounds --------------------------------- *)
\* most turns the conversation table holds, and most fresh conversation ids
MaxItems == 1
\* most requests one client issues
MaxRequests == 2
\* most messages in flight towards the client
MaxInbox == 1
\* most connections the persistent server accepts
MaxConns == 2
\* most frames that arrive at the persistent server, over all connections
MaxArrivals == 2

\* most turns the table holds when only chats and history reads are made
MaxTurns == 3

(* ------------------------- program constants --------------------------- *)
PROTOCOL_VERSION == "2024-11-05"
MCP_VERSION == "1.0.0"
BEDROCK_MODEL_ID == "amazon.nova-lite-v1:0"
SERVER_NAME == "AWS MCP Customer Support Server"
HISTORY_URI == "conversation://history"

(* ----------------------------- Python values --------------------------- *)
\* None where a string is expected
NoneStr == "<None>"
\* None where an id is expected (JSON null)
NullId == [t |-> "null", v |-> 0]
IntId(n) == [t |-> "int", v |-> n]
\* str(n): the decimal string of n, a value of another type than n
StrId(n) == [t |-> "str", v |-> ToString(n)]
\* a value that is no dict (JSON null, array, string or number): .get raises
NonDict == [nondict |-> TRUE]
IsDict(d) == "nondict" \notin DOMAIN d
EmptyDict == [k \in {} |-> NoneStr]

\* dict.get(k, default)
Get(d, k, default) == IF k \in DOMAIN d THEN d[k] ELSE default

\* "not s" for a string or None
Falsy(s) == s = NoneStr \/ s = ""

(* ------------------------------ Error Mapper --------------------------- *)
\* the text of an exception or of an error: a fixed part and the value
\* formatted into it
Msg(text, arg) == [text |-> text, arg |-> arg]
AttributeErrorMsg == Msg("object has no attribute 'get'", NoneStr)

\* get_error_code with the codes of two kinds exchanged
ServerGetErrorCodeSwapped(error_type) ==
    CASE error_type = "parse_error" -> -32700
      [] error_type = "invalid_request" -> -32601
      [] error_type = "method_not_found" -> -32600
      [] error_type = "invalid_params" -> -32602
      [] error_type = "internal_error" -> -32603
      [] OTHER -> -32603

\* MCPServer.get_error_code
ServerGetErrorCode(error_type) ==
    CASE error_type = "parse_error" -> -32700
      [] error_type = "invalid_request" -> -32600
      [] error_type = "method_not_found" -> -32601
      [] error_type = "invalid_params" -> -32602
      [] error_type = "internal_error" -> -32603
      [] OTHER -> -32603

\* get_error_code without the default of error_codes.get: an unmapped kind
\* gets a code of its own
LambdaGetErrorCodeNoFallback(error_type) ==
    CASE error_type = "parse_error" -> -32700
      [] error_type = "invalid_request" -> -32600
      [] error_type = "method_not_found" -> -32601
      [] error_type = "invalid_params" -> -32602
      [] error_type = "internal_error" -> -32603
      [] OTHER -> -32000

\* MCPLambdaHandler.get_error_code
LambdaGetErrorCode(error_type) ==
    CASE error_type = "parse_error" -> -32700
      [] error_type = "invalid_request" -> -32600
      [] error_type = "method_not_found" -> -32601
      [] error_type = "invalid_params" -> -32602
      [] error_type = "internal_error" -> -32603
      [] OTHER -> -32603

\* the envelope MCPServer.send_error builds; id_val defaults to None
ServerErrorEnvelope(error_code, message, id_val) ==
    LET error_response ==
            [jsonrpc |-> "2.0",
             error |-> [code |-> ServerGetErrorCode(error_code),
                        message |-> message]]
    IN  IF id_val # NullId THEN error_response @@ [id |-> id_val]
        ELSE error_response

\* MCPLambdaHandler.create_error_response
CreateErrorResponse(error_code, message, id_val) ==
    LET error_response ==
            [jsonrpc |-> "2.0",
             error |-> [code |-> LambdaGetErrorCode(error_code),
                        message |-> message]]
    IN  IF id_val # NullId THEN error_response @@ [id |-> id_val]
        ELSE error_response

\* a success envelope, as every handler builds it
ResultEnvelope(id_val, result) ==
    [jsonrpc |-> "2.0", id |-> id_val, result |-> result]

(* -------------------------- what a call produces ----------------------- *)
\* A Python call returns a value or raises; on the way it calls the
\* collaborators (calls), changes the conversation table (table), draws
\* fresh uuid4 tokens (uuid) and sends envelopes on the socket (sent).
Ret(v, cs, tb, u) ==
    [raised |-> FALSE, val |-> v, calls |-> cs, table |-> tb, uuid |-> u]
Raise(e, cs, tb, u) ==
    [raised |-> TRUE, val |-> e, calls |-> cs, table |-> tb, uuid |-> u]

\* str(uuid.uuid4()) as a default conversation id: the n-th fresh token
Uuid(n) == "uuid-" \o ToString(n)
\* str(uuid.uuid4()) as the turn_id of an item, which no code reads
TurnId == "<uuid4>"
\* datetime.utcnow().isoformat()
UtcNow == "<utcnow>"

(* ------------------- collaborators (soft-failure wrappers) ------------- *)
\* What the environment does during one handling: the Model Backend answers
\* in a recognised shape ("ok"), in none ("badshape") or raises ("raise");
\* the table query and the table put succeed ("ok") or raise ("fail").
Envs == [backend : {"ok", "badshape", "raise"},
         query : {"ok", "fail"},
         put : {"ok", "fail"}]

ReplyText == "<model reply>"
ApologyFormat ==
    "I apologize, but I received an unexpected response format. Please try again."
ApologyError ==
    "I apologize, but I encountered an error while processing your request: "

\* conversation_history[-10:] keeps at most this many turns
HistoryLimit == 10

\* get_conversation_history_from_db returning the stored items although
\* the query raised
QueryHistoryIgnoresFault(table, conversation_id, env) ==
    SelectSeq(table, LAMBDA it : it.conversation_id = conversation_id)

\* get_conversation_history_from_db: the items of the conversation in
\* stored order, or [] when the query raises
QueryHistory(table, conversation_id, env) ==
    IF env.query = "ok"
    THEN SelectSeq(table, LAMBDA it : it.conversation_id = conversation_id)
    ELSE <<>>

\* build_conversation_context
BuildConversationContext(current_message, conversation_history) ==
    LET n == Len(conversation_history)
        recent_history ==
            IF n > HistoryLimit
            THEN SubSeq(conversation_history, n - HistoryLimit + 1, n)
            ELSE conversation_history
        pairs[i \in 0..Len(recent_history)] ==
            IF i = 0 THEN <<>>
            ELSE pairs[i - 1] \o
                 << [role |-> "user",
                     content |-> Get(recent_history[i], "query", "")],
                    [role |-> "assistant",
                     content |-> Get(recent_history[i], "response", "")] >>
    IN  << [role |-> "system", content |-> "<system prompt>"] >>
        \o pairs[Len(recent_history)]
        \o << [role |-> "user", content |-> current_message] >>

\* the request body call_bedrock_model hands to invoke_model: the server
\* sends the whole context, the Lambda host only the last message of it
BedrockRequest(host, messages) ==
    IF host = "server" THEN messages
    ELSE << [role |-> "user", content |-> messages[Len(messages)].content] >>

\* call_bedrock_model answering a fault of the backend with an empty text
CallBedrockModelNoApology(host, message, conversation_history, env) ==
    LET messages == BuildConversationContext(message, conversation_history)
    IN  [call |-> [op |-> "backend", body |-> BedrockRequest(host, messages),
                   outcome |-> env.backend],
         text |-> IF env.backend = "ok" THEN ReplyText ELSE ""]

\* call_bedrock_model: the reply text, or an apology when the backend
\* raises or answers in no recognised shape; it never raises
CallBedrockModel(host, message, conversation_history, env) ==
    LET messages == BuildConversationContext(message, conversation_history)
    IN  [call |-> [op |-> "backend", body |-> BedrockRequest(host, messages),
                   outcome |-> env.backend],
         text |-> CASE env.backend = "ok" -> ReplyText
                    [] env.backend = "badshape" -> ApologyFormat
                    [] OTHER -> ApologyError]

\* the item store_conversation puts
ConversationItem(conversation_id, user_id, query, response, turn_id) ==
    [conversation_id |-> conversation_id, timestamp |-> UtcNow,
     user_id |-> user_id, query |-> query, response |-> response,
     turn_id |-> turn_id]

\* store_conversation on a table that keeps one item per conversation: the
\* put replaces the turn stored before under the same conversation id
StoreConversationOverwrites(table, item, env) ==
    IF env.put = "ok"
    THEN Append(SelectSeq(table, LAMBDA it :
                    it.conversation_id # item.conversation_id), item)
    ELSE table

\* store_conversation: appends the turn; a failing put is logged and ignored
StoreConversation(table, item, env) ==
    IF env.put = "ok" THEN Append(table, item) ELSE table

(* --------------------------------- tools ------------------------------- *)
\* tool_chat_with_ai (the same code on both hosts up to the backend body)
ToolChatWithAi(host, arguments, table, uuid, env) ==
    IF ~IsDict(arguments) THEN Raise(AttributeErrorMsg, <<>>, table, uuid)
    ELSE
    LET message == Get(arguments, "message", "")
        fresh == "conversation_id" \notin DOMAIN arguments
        conversation_id == Get(arguments, "conversation_id", Uuid(uuid))
        u1 == IF fresh THEN uuid + 1 ELSE uuid
        user_id == Get(arguments, "user_id", "anonymous")
        conversation_history == QueryHistory(table, conversation_id, env)
        bedrock == CallBedrockModel(host, message, conversation_history, env)
        response_text == bedrock.text
        item == ConversationItem(conversation_id, user_id, message,
                                 response_text, TurnId)
    IN  Ret([conversation_id |-> conversation_id,
             user_id |-> user_id,
             response |-> response_text,
             timestamp |-> UtcNow,
             context |-> [conversation_length |-> Len(conversation_history) + 1,
                          model |-> BEDROCK_MODEL_ID]],
            << [op |-> "query", conversation_id |-> conversation_id,
                outcome |-> env.query],
               bedrock.call,
               [op |-> "put", item |-> item, outcome |-> env.put] >>,
            StoreConversation(table, item, env), u1)

\* tool_get_conversation_history reporting the size of the whole table
ToolGetConversationHistoryWholeTable(arguments, table, uuid, env) ==
    IF ~IsDict(arguments) THEN Raise(AttributeErrorMsg, <<>>, table, uuid)
    ELSE
    LET conversation_id == Get(arguments, "conversation_id", NoneStr)
        history == QueryHistory(table, conversation_id, env)
    IN  IF Falsy(conversation_id)
        THEN Raise(Msg("conversation_id is required", NoneStr),
                   <<>>, table, uuid)
        ELSE Ret([conversation_id |-> conversation_id,
                  history |-> history,
                  total_exchanges |-> Len(table),
                  retrieved_at |-> UtcNow],
                 << [op |-> "query", conversation_id |-> conversation_id,
                     outcome |-> env.query] >>,
                 table, uuid)

\* tool_get_conversation_history
ToolGetConversationHistory(arguments, table, uuid, env) ==
    IF ~IsDict(arguments) THEN Raise(AttributeErrorMsg, <<>>, table, uuid)
    ELSE
    LET conversation_id == Get(arguments, "conversation_id", NoneStr)
        history == QueryHistory(table, conversation_id, env)
    IN  IF Falsy(conversation_id)
        THEN Raise(Msg("conversation_id is required", NoneStr),
                   <<>>, table, uuid)
        ELSE Ret([conversation_id |-> conversation_id,
                  history |-> history,
                  total_exchanges |-> Len(history),
                  retrieved_at |-> UtcNow],
                 << [op |-> "query", conversation_id |-> conversation_id,
                     outcome |-> env.query] >>,
                 table, uuid)

\* json.dumps(value, indent=2): the text that serialises value
Dumps(value) == [json |-> value]

\* the result both hosts wrap a tool's return value in
ToolContent(result) ==
    [content |-> << [type |-> "text", text |-> Dumps(result)] >>]

(* --------------------------- capability registries --------------------- *)
CatalogMethods == {"initialize", "notifications/initialized", "tools/list",
                   "tools/call", "resources/list", "resources/read",
                   "prompts/list", "prompts/get", "sampling/createMessage"}

\* self.capabilities
Capabilities ==
    [tools |-> EmptyDict, resources |-> EmptyDict, prompts |-> EmptyDict,
     experimental |-> [sampling |-> TRUE]]

\* the result of initialize
InitializeResult ==
    [protocolVersion |-> PROTOCOL_VERSION,
     capabilities |-> Capabilities,
     serverInfo |-> [name |-> SERVER_NAME, version |-> MCP_VERSION]]

\* the tool list with the alias chat_with_nova as an entry of its own
ToolsListResultWithAlias ==
    [tools |->
       << [name |-> "chat_with_ai",
           inputSchema |->
             [properties |-> {"message", "conversation_id", "user_id"},
              required |-> <<"message">>]],
          [name |-> "chat_with_nova",
           inputSchema |->
             [properties |-> {"message", "conversation_id", "user_id"},
              required |-> <<"message">>]],
          [name |-> "get_conversation_history",
           inputSchema |->
             [properties |-> {"conversation_id"},
              required |-> <<"conversation_id">>]] >>]

\* the result of tools/list
ToolsListResult ==
    [tools |->
       << [name |-> "chat_with_ai",
           inputSchema |->
             [properties |-> {"message", "conversation_id", "user_id"},
              required |-> <<"message">>]],
          [name |-> "get_conversation_history",
           inputSchema |->
             [properties |-> {"conversation_id"},
              required |-> <<"conversation_id">>]] >>]

\* the result of resources/list
ResourcesListResult ==
    [resources |->
       << [uri |-> HISTORY_URI, name |-> "Conversation History",
           mimeType |-> "application/json"] >>]

\* the result of resources/read for the one resource
ResourcesReadResult(uri) ==
    [contents |->
       << [uri |-> uri, mimeType |-> "application/json",
           text |-> Dumps([conversations |-> "<use the tool>",
                           available_methods |-> 2])] >>]

\* the result of prompts/list
PromptsListResult ==
    [prompts |->
       << [name |-> "customer_support",
           arguments |->
             << [name |-> "customer_issue", required |-> TRUE],
                [name |-> "urgency", required |-> FALSE] >>] >>]

\* the result of prompts/get: the template with its substitutions; the
\* server names BEDROCK_MODEL_ID in the text, the Lambda host a fixed name
PromptsGetResult(host, customer_issue, urgency) ==
    [description |-> "Customer support prompt for Nova Lite",
     messages |->
       << [role |-> "user",
           content |->
             [type |-> "text",
              text |-> [template |-> "customer_support",
                        powered_by |-> IF host = "server"
                                       THEN BEDROCK_MODEL_ID
                                       ELSE "Amazon Nova Lite",
                        customer_issue |-> customer_issue,
                        urgency |-> urgency]]] >>]

\* the text of the first item of a content list whose type is "text"
RECURSIVE FirstText(_)
FirstText(items) ==
    IF items = <<>> THEN ""
    ELSE IF Get(items[1], "type", NoneStr) = "text"
         THEN Get(items[1], "text", "")
         ELSE FirstText(Tail(items))

\* the loop of handle_sampling_create_message: scanning from the end, the
\* first user-role message decides user_message and ends the scan
RECURSIVE LastUserMessage(_)
LastUserMessage(messages) ==
    IF messages = <<>> THEN ""
    ELSE LET msg == messages[Len(messages)]
         IN  IF Get(msg, "role", NoneStr) = "user"
             THEN LET content == Get(msg, "content", [t |-> "none"])
                  IN  CASE content.t = "list" -> FirstText(content.items)
                        [] content.t = "str" -> content.text
                        [] OTHER -> ""
             ELSE LastUserMessage(SubSeq(messages, 1, Len(messages) - 1))

\* the result of sampling/createMessage handed back under the user role
SamplingResultUserRole(response_text) ==
    [role |-> "user",
     content |-> [type |-> "text", text |-> response_text],
     model |-> BEDROCK_MODEL_ID,
     stopReason |-> "endTurn"]

\* the result of sampling/createMessage
SamplingResult(response_text) ==
    [role |-> "assistant",
     content |-> [type |-> "text", text |-> response_text],
     model |-> BEDROCK_MODEL_ID,
     stopReason |-> "endTurn"]

(* ----------------------- persistent server: handlers ------------------- *)
\* What running a handler of MCPServer does: the envelopes it sends on the
\* websocket (sent), whether an exception leaves it (raised, val), the
\* collaborator calls, the table, the tokens drawn, and the handlers run.
Out(sent, raised, val, calls, table, uuid, ran) ==
    [sent |-> sent, raised |-> raised, val |-> val, calls |-> calls,
     table |-> table, uuid |-> uuid, ran |-> ran]
NoExc == Msg("", NoneStr)

\* handle_initialize answering with the version the client asked for
ServerHandleInitializeEcho(params, id_val, table, uuid) ==
    IF ~IsDict(params) \/ ~IsDict(Get(params, "clientInfo", EmptyDict))
    THEN Out(<<>>, TRUE, AttributeErrorMsg, <<>>, table, uuid,
             <<"handle_initialize">>)
    ELSE Out(<< ResultEnvelope(id_val,
                   [InitializeResult EXCEPT !.protocolVersion =
                       Get(params, "protocolVersion", PROTOCOL_VERSION)]) >>,
             FALSE, NoExc, <<>>, table, uuid, <<"handle_initialize">>)

\* MCPServer.handle_initialize
ServerHandleInitialize(params, id_val, table, uuid) ==
    IF ~IsDict(params) \/ ~IsDict(Get(params, "clientInfo", EmptyDict))
    THEN Out(<<>>, TRUE, AttributeErrorMsg, <<>>, table, uuid,
             <<"handle_initialize">>)
    ELSE Out(<< ResultEnvelope(id_val, InitializeResult) >>, FALSE, NoExc,
             <<>>, table, uuid, <<"handle_initialize">>)

\* MCPServer.handle_initialized: only logs
ServerHandleInitialized(table, uuid) ==
    Out(<<>>, FALSE, NoExc, <<>>, table, uuid, <<"handle_initialized">>)

\* MCPServer.handle_tools_list
ServerHandleToolsList(id_val, table, uuid) ==
    Out(<< ResultEnvelope(id_val, ToolsListResult) >>, FALSE, NoExc,
        <<>>, table, uuid, <<"handle_tools_list">>)

\* the test of handle_tools_call without the backward-compatible name
IsChatToolNoAlias(tool_name) == tool_name = "chat_with_ai"

\* the first branch of handle_tools_call, the same on both hosts: the chat
\* tool answers to its name and to the older name chat_with_nova
IsChatTool(tool_name) ==
    tool_name = "chat_with_ai" \/ tool_name = "chat_with_nova"

\* MCPServer.handle_tools_call
ServerHandleToolsCall(params, id_val, table, uuid, env) ==
    IF ~IsDict(params)
    THEN Out(<<>>, TRUE, AttributeErrorMsg, <<>>, table, uuid,
             <<"handle_tools_call">>)
    ELSE
    LET tool_name == Get(params, "name", NoneStr)
        arguments == Get(params, "arguments", EmptyDict)
        chat == ToolChatWithAi("server", arguments, table, uuid, env)
        hist == ToolGetConversationHistory(arguments, table, uuid, env)
        Finish(t, tool) ==
            IF t.raised
            THEN Out(<< ServerErrorEnvelope("internal_error", t.val,
                                            id_val) >>,
                     FALSE, NoExc, t.calls, t.table, t.uuid,
                     <<"handle_tools_call", tool>>)
            ELSE Out(<< ResultEnvelope(id_val, ToolContent(t.val)) >>,
                     FALSE, NoExc, t.calls, t.table, t.uuid,
                     <<"handle_tools_call", tool>>)
    IN  IF IsChatTool(tool_name)
        THEN Finish(chat, "tool_chat_with_ai")
        ELSE IF tool_name = "get_conversation_history"
        THEN Finish(hist, "tool_get_conversation_history")
        ELSE Out(<< ServerErrorEnvelope("invalid_request",
                        Msg("Unknown tool: ", tool_name), id_val) >>,
                 FALSE, NoExc, <<>>, table, uuid, <<"handle_tools_call">>)

\* MCPServer.handle_resources_list
ServerHandleResourcesList(id_val, table, uuid) ==
    Out(<< ResultEnvelope(id_val, ResourcesListResult) >>, FALSE, NoExc,
        <<>>, table, uuid, <<"handle_resources_list">>)

\* MCPServer.handle_resources_read
ServerHandleResourcesRead(params, id_val, table, uuid) ==
    IF ~IsDict(params)
    THEN Out(<<>>, TRUE, AttributeErrorMsg, <<>>, table, uuid,
             <<"handle_resources_read">>)
    ELSE
    LET uri == Get(params, "uri", NoneStr)
    IN  IF uri = HISTORY_URI
        THEN Out(<< ResultEnvelope(id_val, ResourcesReadResult(uri)) >>,
                 FALSE, NoExc, <<>>, table, uuid, <<"handle_resources_read">>)
        ELSE Out(<< ServerErrorEnvelope("invalid_request",
                        Msg("Unknown resource: ", uri), id_val) >>,
                 FALSE, NoExc, <<>>, table, uuid, <<"handle_resources_read">>)

\* MCPServer.handle_prompts_list
ServerHandlePromptsList(id_val, table, uuid) ==
    Out(<< ResultEnvelope(id_val, PromptsListResult) >>, FALSE, NoExc,
        <<>>, table, uuid, <<"handle_prompts_list">>)

\* MCPServer.handle_prompts_get
ServerHandlePromptsGet(params, id_val, table, uuid) ==
    IF ~IsDict(params)
    THEN Out(<<>>, TRUE, AttributeErrorMsg, <<>>, table, uuid,
             <<"handle_prompts_get">>)
    ELSE
    LET prompt_name == Get(params, "name", NoneStr)
        arguments == Get(params, "arguments", EmptyDict)
    IN  IF prompt_name = "customer_support"
        THEN IF ~IsDict(arguments)
             THEN Out(<<>>, TRUE, AttributeErrorMsg, <<>>, table, uuid,
                      <<"handle_prompts_get">>)
             ELSE Out(<< ResultEnvelope(id_val,
                           PromptsGetResult("server",
                               Get(arguments, "customer_issue", ""),
                               Get(arguments, "urgency", "medium"))) >>,
                      FALSE, NoExc, <<>>, table, uuid,
                      <<"handle_prompts_get">>)
        ELSE Out(<< ServerErrorEnvelope("invalid_request",
                        Msg("Unknown prompt: ", prompt_name), id_val) >>,
                 FALSE, NoExc, <<>>, table, uuid, <<"handle_prompts_get">>)

\* MCPServer.handle_sampling_create_message
ServerHandleSampling(params, id_val, table, uuid, env) ==
    IF ~IsDict(params)
    THEN Out(<<>>, TRUE, AttributeErrorMsg, <<>>, table, uuid,
             <<"handle_sampling_create_message">>)
    ELSE
    LET messages == Get(params, "messages", <<>>)
        user_message == LastUserMessage(messages)
        bedrock == CallBedrockModel("server", user_message, <<>>, env)
    IN  IF user_message = ""
        THEN Out(<< ServerErrorEnvelope("internal_error",
                        Msg("No user message found in sampling request",
                            NoneStr), id_val) >>,
                 FALSE, NoExc, <<>>, table, uuid,
                 <<"handle_sampling_create_message">>)
        ELSE Out(<< ResultEnvelope(id_val, SamplingResult(bedrock.text)) >>,
                 FALSE, NoExc, << bedrock.call >>, table, uuid,
                 <<"handle_sampling_create_message">>)

(* ----------------------- persistent server: dispatch ------------------- *)
\* A text frame: JSON text that parses to value, or text json.loads rejects
JsonText(value) == [t |-> "json", value |-> value]
Garbage == [t |-> "garbage", value |-> NonDict]

\* the if/elif chain of MCPServer.process_message
ServerDispatch(method, params, id_val, table, uuid, env) ==
    CASE method = "initialize" ->
            ServerHandleInitialize(params, id_val, table, uuid)
      [] method = "notifications/initialized" ->
            ServerHandleInitialized(table, uuid)
      [] method = "tools/list" ->
            ServerHandleToolsList(id_val, table, uuid)
      [] method = "tools/call" ->
            ServerHandleToolsCall(params, id_val, table, uuid, env)
      [] method = "resources/list" ->
            ServerHandleResourcesList(id_val, table, uuid)
      [] method = "resources/read" ->
            ServerHandleResourcesRead(params, id_val, table, uuid)
      [] method = "prompts/list" ->
            ServerHandlePromptsList(id_val, table, uuid)
      [] method = "prompts/get" ->
            ServerHandlePromptsGet(params, id_val, table, uuid)
      [] method = "sampling/createMessage" ->
            ServerHandleSampling(params, id_val, table, uuid, env)
      [] OTHER ->
            Out(<< ServerErrorEnvelope("method_not_found",
                       Msg("Unknown method: ", method), id_val) >>,
                FALSE, NoExc, <<>>, table, uuid, <<>>)

\* the exception is logged and nothing is sent
ProcessMessageExceptSilent(h) ==
    Out(h.sent, FALSE, NoExc, h.calls, h.table, h.uuid, h.ran)

\* except Exception in process_message: send_error without the id
ProcessMessageExcept(h) ==
    Out(h.sent \o << ServerErrorEnvelope("internal_error", h.val, NullId) >>,
        FALSE, NoExc, h.calls, h.table, h.uuid, h.ran)

\* MCPServer.process_message on an open connection: what it sends and does
ServerProcessMessage(message, table, uuid, env) ==
    IF message.t = "garbage"
    THEN \* except json.JSONDecodeError
         Out(<< ServerErrorEnvelope("parse_error",
                    Msg("Invalid JSON", NoneStr), NullId) >>,
             FALSE, NoExc, <<>>, table, uuid, <<>>)
    ELSE
    LET data == message.value
    IN  IF ~IsDict(data)
        THEN \* data.get raises AttributeError: except Exception
             Out(<< ServerErrorEnvelope("internal_error", AttributeErrorMsg,
                                        NullId) >>,
                 FALSE, NoExc, <<>>, table, uuid, <<>>)
        ELSE
        LET method == Get(data, "method", NoneStr)
            params == Get(data, "params", EmptyDict)
            id_val == Get(data, "id", NullId)
            h == ServerDispatch(method, params, id_val, table, uuid, env)
        IN  IF h.raised THEN ProcessMessageExcept(h) ELSE h

(* ------------------------- stateless Lambda host ----------------------- *)
\* What a handler of MCPLambdaHandler does: it returns a result (val) or
\* raises (raised, val); sent is unused, the host has no socket.
LambdaHandleInitialize(params, table, uuid) ==
    IF ~IsDict(params) \/ ~IsDict(Get(params, "clientInfo", EmptyDict))
    THEN Out(<<>>, TRUE, AttributeErrorMsg, <<>>, table, uuid,
             <<"handle_initialize">>)
    ELSE Out(<<>>, FALSE, InitializeResult, <<>>, table, uuid,
             <<"handle_initialize">>)

\* MCPLambdaHandler.handle_tools_call
LambdaHandleToolsCall(params, table, uuid, env) ==
    IF ~IsDict(params)
    THEN Out(<<>>, TRUE, AttributeErrorMsg, <<>>, table, uuid,
             <<"handle_tools_call">>)
    ELSE
    LET tool_name == Get(params, "name", NoneStr)
        arguments == Get(params, "arguments", EmptyDict)
        chat == ToolChatWithAi("lambda", arguments, table, uuid, env)
        hist == ToolGetConversationHistory(arguments, table, uuid, env)
        Finish(t, tool) ==
            Out(<<>>, t.raised,
                IF t.raised THEN t.val ELSE ToolContent(t.val),
                t.calls, t.table, t.uuid, <<"handle_tools_call", tool>>)
    IN  IF IsChatTool(tool_name)
        THEN Finish(chat, "tool_chat_with_ai")
        ELSE IF tool_name = "get_conversation_history"
        THEN Finish(hist, "tool_get_conversation_history")
        ELSE Out(<<>>, TRUE, Msg("Unknown tool: ", tool_name), <<>>, table,
                 uuid, <<"handle_tools_call">>)

\* MCPLambdaHandler.handle_resources_read
LambdaHandleResourcesRead(params, table, uuid) ==
    IF ~IsDict(params)
    THEN Out(<<>>, TRUE, AttributeErrorMsg, <<>>, table, uuid,
             <<"handle_resources_read">>)
    ELSE
    LET uri == Get(params, "uri", NoneStr)
    IN  IF uri = HISTORY_URI
        THEN Out(<<>>, FALSE, ResourcesReadResult(uri), <<>>, table, uuid,
                 <<"handle_resources_read">>)
        ELSE Out(<<>>, TRUE, Msg("Unknown resource: ", uri), <<>>, table,
                 uuid, <<"handle_resources_read">>)

\* MCPLambdaHandler.handle_prompts_get
LambdaHandlePromptsGet(params, table, uuid) ==
    IF ~IsDict(params)
    THEN Out(<<>>, TRUE, AttributeErrorMsg, <<>>, table, uuid,
             <<"handle_prompts_get">>)
    ELSE
    LET prompt_name == Get(params, "name", NoneStr)
        arguments == Get(params, "arguments", EmptyDict)
    IN  IF prompt_name = "customer_support"
        THEN IF ~IsDict(arguments)
             THEN Out(<<>>, TRUE, AttributeErrorMsg, <<>>, table, uuid,
                      <<"handle_prompts_get">>)
             ELSE Out(<<>>, FALSE,
                      PromptsGetResult("lambda",
                          Get(arguments, "customer_issue", ""),
                          Get(arguments, "urgency", "medium")),
                      <<>>, table, uuid, <<"handle_prompts_get">>)
        ELSE Out(<<>>, TRUE, Msg("Unknown prompt: ", prompt_name), <<>>,
                 table, uuid, <<"handle_prompts_get">>)

\* MCPLambdaHandler.handle_sampling_create_message
LambdaHandleSampling(params, table, uuid, env) ==
    IF ~IsDict(params)
    THEN Out(<<>>, TRUE, AttributeErrorMsg, <<>>, table, uuid,
             <<"handle_sampling_create_message">>)
    ELSE
    LET messages == Get(params, "messages", <<>>)
        user_message == LastUserMessage(messages)
        bedrock == CallBedrockModel("lambda", user_message, <<>>, env)
    IN  IF user_message = ""
        THEN Out(<<>>, TRUE,
                 Msg("No user message found in sampling request", NoneStr),
                 <<>>, table, uuid, <<"handle_sampling_create_message">>)
        ELSE Out(<<>>, FALSE, SamplingResult(bedrock.text), << bedrock.call >>,
                 table, uuid, <<"handle_sampling_create_message">>)

\* the headers of every transport reply
ReplyHeaders ==
    [ContentType |-> "application/json", AccessControlAllowOrigin |-> "*"]

\* the transport reply around a JSON body
TransportReply(statusCode, envelope) ==
    [statusCode |-> statusCode, headers |-> ReplyHeaders,
     body |-> Dumps(envelope)]

\* the except clause of MCPLambdaHandler.lambda_handler
LambdaFailure(e) ==
    TransportReply(500, CreateErrorResponse("internal_error", e, NullId))

\* MCPLambdaHandler.lambda_handler: val is the value the invocation returns
LambdaHandler(event, table, uuid, env) ==
    IF "body" \in DOMAIN event /\ event.body.t = "garbage"
    THEN Out(<<>>, FALSE, LambdaFailure(Msg("Expecting value", NoneStr)),
             <<>>, table, uuid, <<>>)
    ELSE
    LET body == IF "body" \in DOMAIN event THEN event.body.value ELSE event
    IN  IF ~IsDict(body)
        THEN Out(<<>>, FALSE, LambdaFailure(AttributeErrorMsg), <<>>, table,
                 uuid, <<>>)
        ELSE
        LET method == Get(body, "method", NoneStr)
            params == Get(body, "params", EmptyDict)
            id_val == Get(body, "id", NullId)
            Static(result, name) ==
                Out(<<>>, FALSE, result, <<>>, table, uuid, <<name>>)
            known == method \in CatalogMethods \ {"notifications/initialized"}
            h == CASE method = "initialize" ->
                        LambdaHandleInitialize(params, table, uuid)
                   [] method = "tools/list" ->
                        Static(ToolsListResult, "handle_tools_list")
                   [] method = "tools/call" ->
                        LambdaHandleToolsCall(params, table, uuid, env)
                   [] method = "resources/list" ->
                        Static(ResourcesListResult, "handle_resources_list")
                   [] method = "resources/read" ->
                        LambdaHandleResourcesRead(params, table, uuid)
                   [] method = "prompts/list" ->
                        Static(PromptsListResult, "handle_prompts_list")
                   [] method = "prompts/get" ->
                        LambdaHandlePromptsGet(params, table, uuid)
                   [] method = "sampling/createMessage" ->
                        LambdaHandleSampling(params, table, uuid, env)
                   [] OTHER ->
                        Static(CreateErrorResponse("method_not_found",
                                   Msg("Unknown method: ", method), id_val),
                               "none")
        IN  IF ~known
            THEN \* the error envelope itself is returned, unwrapped
                 Out(<<>>, FALSE, h.val, <<>>, table, uuid, <<>>)
            ELSE IF h.raised
            THEN Out(<<>>, FALSE, LambdaFailure(h.val), h.calls, h.table,
                     h.uuid, h.ran)
            ELSE Out(<<>>, FALSE,
                     TransportReply(200, ResultEnvelope(id_val, h.val)),
                     h.calls, h.table, h.uuid, h.ran)

\* the Response envelope inside the value lambda_handler returned
LambdaEnvelope(reply) ==
    IF "body" \in DOMAIN reply THEN reply.body.json ELSE reply

(* --------------------------- inbound messages -------------------------- *)
\* the ids a message may carry: none, null, the number 2, the string "2"
IdParts == {EmptyDict, [id |-> NullId], [id |-> IntId(2)], [id |-> StrId(2)]}

\* the arguments of a tools/call of a chat tool ({} stands for no
\* arguments key)
ChatArguments ==
    {EmptyDict,
     [arguments |-> NonDict],
     [arguments |-> EmptyDict],
     [arguments |-> [message |-> "hi"]],
     [arguments |-> [message |-> "hi", conversation_id |-> "c1",
                     user_id |-> "u1"]]}

\* the arguments of a tools/call of get_conversation_history
HistoryArguments ==
    {EmptyDict,
     [arguments |-> NonDict],
     [arguments |-> EmptyDict],
     [arguments |-> [conversation_id |-> "c1"]],
     [arguments |-> [conversation_id |-> "c2"]],
     [arguments |-> [conversation_id |-> ""]],
     [arguments |-> [user_id |-> "u1"]]}

\* the params of a tools/call
ToolCalls ==
    {NonDict, EmptyDict, [name |-> "nope"],
     [name |-> "nope", arguments |-> [message |-> "hi"]]}
    \cup {[name |-> "chat_with_ai"] @@ a : a \in ChatArguments}
    \cup {[name |-> "chat_with_nova"] @@ a : a \in ChatArguments}
    \cup {[name |-> "get_conversation_history"] @@ a : a \in HistoryArguments}

PromptArguments ==
    {EmptyDict,
     [arguments |-> NonDict],
     [arguments |-> EmptyDict],
     [arguments |-> [customer_issue |-> "late parcel"]],
     [arguments |-> [customer_issue |-> "late parcel", urgency |-> "high"]],
     [arguments |-> [urgency |-> "high"]]}

StrContent(text) == [t |-> "str", text |-> text]
ListContent(items) == [t |-> "list", items |-> items]

SamplingMessages ==
    {EmptyDict,
     [messages |-> <<>>],
     [messages |-> << [role |-> "user", content |-> StrContent("hi")] >>],
     [messages |-> << [role |-> "user", content |-> StrContent("first")],
                      [role |-> "assistant", content |-> StrContent("x")],
                      [role |-> "user", content |-> StrContent("second")],
                      [role |-> "assistant", content |-> StrContent("y")] >>],
     [messages |-> << [role |-> "user", content |-> StrContent("hi")],
                      [role |-> "user", content |-> [t |-> "other"]] >>],
     [messages |-> << [role |-> "user",
                       content |-> ListContent(
                           << [type |-> "image"],
                              [type |-> "text", text |-> "in a list"] >>)] >>],
     [messages |-> << [role |-> "assistant", content |-> StrContent("x")] >>]}

\* the params a message of the method may carry ({} stands for no params)
ParamsOf(method) ==
    CASE method = "initialize" ->
            {EmptyDict, NonDict,
             [protocolVersion |-> PROTOCOL_VERSION],
             [protocolVersion |-> "1999-01-01", capabilities |-> EmptyDict,
              clientInfo |-> [name |-> "c", version |-> "9"]],
             [clientInfo |-> NonDict]}
      [] method = "tools/call" ->
            ToolCalls
      [] method = "resources/read" ->
            {EmptyDict, NonDict, [uri |-> HISTORY_URI],
             [uri |-> "conversation://other"]}
      [] method = "prompts/get" ->
            {NonDict, EmptyDict, [name |-> "nope"],
             [name |-> "nope", arguments |-> [customer_issue |-> "late parcel"]]}
            \cup {[name |-> "customer_support"] @@ a : a \in PromptArguments}
      [] method = "sampling/createMessage" ->
            {NonDict} \cup SamplingMessages
      [] OTHER -> {EmptyDict}

\* the method names a message may carry; "foo/bar" is in no catalog
MethodNames == CatalogMethods \cup {"foo/bar"}

\* JSON objects that are no Request, Notification or Response: a method
\* together with a result, and a result together with an error
InvalidEnvelopes ==
    {[jsonrpc |-> "2.0", id |-> IntId(2), method |-> "tools/list",
      result |-> EmptyDict],
     [jsonrpc |-> "2.0", id |-> IntId(2), result |-> EmptyDict,
      error |-> [code |-> -32603, message |-> Msg("failed", NoneStr)]]}

\* the JSON objects that may arrive
Bodies ==
    {[jsonrpc |-> "2.0"] @@ i : i \in IdParts}
    \cup InvalidEnvelopes
    \cup UNION {
        {[jsonrpc |-> "2.0", method |-> m] @@ i
            @@ (IF p = EmptyDict THEN EmptyDict ELSE [params |-> p]) :
         i \in IdParts, p \in ParamsOf(m)} : m \in MethodNames}

\* the text frames that may arrive on a connection
Frames == {Garbage, JsonText(NonDict)} \cup {JsonText(b) : b \in Bodies}

\* the events the Lambda host may be invoked with: the JSON object itself,
\* or an HTTP event that carries the text in its body
Events ==
    Bodies \cup {[body |-> Garbage], [body |-> JsonText(NonDict)]}
    \cup {[body |-> JsonText(b)] :
            b \in {x \in Bodies : Get(x, "method", NoneStr)
                                    \in {"tools/list", "foo/bar"}}}

\* a Request carries a method and an id that is a number or a string
IsRequest(data) ==
    /\ IsDict(data)
    /\ "method" \in DOMAIN data
    /\ "id" \in DOMAIN data
    /\ data.id.t \in {"int", "str"}

\* a Notification carries a method and no id
IsNotification(data) ==
    /\ IsDict(data)
    /\ "method" \in DOMAIN data
    /\ "id" \notin DOMAIN data

(* ------------------------------ host state ----------------------------- *)
VARIABLES
    table,      \* the MCPConversations table: the items put, in put order
    nextUuid,   \* how many fresh conversation ids have been drawn
    last,       \* the handling just done: host, input, output, calls, handlers
    request_id,         \* MCPClient.request_id
    pending_requests,   \* MCPClient.pending_requests: id -> the call whose
                        \* future is registered under it
    calls,              \* the send_request calls made so far, in issue order
    inbox,              \* frames on their way to the client, oldest first
    listener,           \* listen_for_responses: "running" or "ended"
    handled,            \* what the receive loop did with its last frame
    wire,               \* what the client passed to websocket.send, in order
    connect_pc,         \* where MCPClient.connect stands
    clients,            \* MCPServer.clients: the connections being served
    closed,             \* the connections the peer has closed
    loop,               \* the receive loop of handle_client, per connection
    inq,                \* frames that arrived on a connection and are not
                        \* yet taken by its loop, oldest first
    arrived,            \* how many frames have arrived on a connection
    tasks,              \* the process_message calls in progress
    blocked,            \* the call that holds the thread of the event loop
                        \* inside a synchronous collaborator call
    log                 \* the finished process_message calls of a
                        \* connection, in the order they finished

hostVars == <<table, nextUuid, last>>
clientVars ==
    <<request_id, pending_requests, calls, inbox, listener, handled>>
shakeVars == <<wire, connect_pc>>
connVars == <<clients, closed, loop, inq, arrived, tasks, blocked, log>>
vars == <<table, nextUuid, last, request_id, pending_requests, calls, inbox,
          listener, handled, wire, connect_pc, clients, closed, loop, inq,
          arrived, tasks, blocked, log>>

NoHandling ==
    [host |-> "none", input |-> Garbage, responses |-> <<>>, reply |-> EmptyDict,
     calls |-> <<>>, ran |-> <<>>]

HostInit ==
    /\ table = <<>>
    /\ nextUuid = 0
    /\ last = NoHandling

\* the handling stays within the bounds of the model
WithinBounds(h) ==
    /\ Len(h.table) <= MaxItems
    /\ h.uuid <= MaxItems

\* the receive loop of handle_client takes one frame and awaits
\* process_message for it
ServerReceive(message, env) ==
    LET h == ServerProcessMessage(message, table, nextUuid, env)
    IN  /\ last = NoHandling
        /\ WithinBounds(h)
        /\ table' = h.table
        /\ nextUuid' = h.uuid
        /\ last' = [host |-> "server", input |-> message,
                    responses |-> h.sent, reply |-> EmptyDict,
                    calls |-> h.calls, ran |-> h.ran]
        /\ UNCHANGED <<clientVars, shakeVars, connVars>>

\* one invocation of the Lambda entry point
LambdaInvoke(event, env) ==
    LET h == LambdaHandler(event, table, nextUuid, env)
    IN  /\ last = NoHandling
        /\ WithinBounds(h)
        /\ table' = h.table
        /\ nextUuid' = h.uuid
        /\ last' = [host |-> "lambda",
                    input |-> IF "body" \in DOMAIN event THEN event.body
                              ELSE JsonText(event),
                    responses |-> << LambdaEnvelope(h.val) >>,
                    reply |-> h.val,
                    calls |-> h.calls, ran |-> h.ran]
        /\ UNCHANGED <<clientVars, shakeVars, connVars>>

\* the host turns to its next input; the record of the last handling is
\* observation only and is dropped
HostContinue ==
    /\ last # NoHandling
    /\ last' = NoHandling
    /\ UNCHANGED <<table, nextUuid>>
    /\ UNCHANGED <<clientVars, shakeVars, connVars>>

\* the environments that can make a difference to the handling of a JSON
\* value: only handlers of tools/call and sampling/createMessage reach a
\* collaborator
EnvsFor(data) ==
    IF IsDict(data) /\ Get(data, "method", NoneStr)
                          \in {"tools/call", "sampling/createMessage"}
    THEN Envs
    ELSE {[backend |-> "ok", query |-> "ok", put |-> "ok"]}

HostNext ==
    \/ \E message \in Frames :
          \E env \in EnvsFor(message.value) : ServerReceive(message, env)
    \/ \E event \in Events :
          \E env \in EnvsFor(IF "body" \in DOMAIN event
                              THEN event.body.value ELSE event) :
             LambdaInvoke(event, env)
    \/ HostContinue

(* ------------------ conversations on the persistent server -------------- *)
\* a tools/call Request with these params
ToolCallFrame(params) ==
    JsonText([jsonrpc |-> "2.0", id |-> IntId(2), method |-> "tools/call",
              params |-> params])

\* the chats and history reads of two conversations
ChatFrames ==
    {ToolCallFrame([name |-> "chat_with_ai",
                    arguments |-> [message |-> m, conversation_id |-> c]]) :
        m \in {"m1", "m2"}, c \in {"c1", "c2"}}
    \cup {ToolCallFrame([name |-> "get_conversation_history",
                         arguments |-> [conversation_id |-> c]]) :
             c \in {"c1", "c2"}}

\* a working store: every query and every put succeeds; the backend may
\* still fail
WorkingStoreEnvs ==
    {env \in Envs : env.query = "ok" /\ env.put = "ok"
                    /\ env.backend \in {"ok", "raise"}}

\* the receive loop takes one of these frames and awaits process_message
ChatReceive(message, env) ==
    LET h == ServerProcessMessage(message, table, nextUuid, env)
    IN  /\ last = NoHandling
        /\ Len(h.table) <= MaxTurns
        /\ table' = h.table
        /\ nextUuid' = h.uuid
        /\ last' = [host |-> "server", input |-> message,
                    responses |-> h.sent, reply |-> EmptyDict,
                    calls |-> h.calls, ran |-> h.ran]
        /\ UNCHANGED <<clientVars, shakeVars, connVars>>

ChatNext ==
    \/ \E message \in ChatFrames :
          \E env \in (IF message.value.params.name = "chat_with_ai"
                       THEN WorkingStoreEnvs
                       ELSE {[backend |-> "ok", query |-> "ok",
                              put |-> "ok"]}) :
             ChatReceive(message, env)
    \/ HostContinue

(* ---------------------- the error mapper on its own -------------------- *)
\* the kinds send_error and create_error_response may be called with: the
\* five of the table and kinds that are not in it (None is one of them)
ErrorKinds ==
    {"parse_error", "invalid_request", "method_not_found", "invalid_params",
     "internal_error", "timeout", "PARSE_ERROR", "", NoneStr}

\* the messages and ids they may be called with
ErrorMessages == {Msg("Invalid JSON", NoneStr), Msg("Unknown method: ", "foo/bar")}
ErrorIds == {NullId, IntId(0), IntId(2), StrId(2)}

\* the arguments of a direct call, kept as the input of the handling
ErrorCall(error_code, message, id_val) ==
    JsonText([error_code |-> error_code, message |-> message,
              id_val |-> id_val])

\* MCPServer.send_error called with these arguments: the envelope is sent
ServerSendError(error_code, message, id_val) ==
    /\ last' = [host |-> "server",
                input |-> ErrorCall(error_code, message, id_val),
                responses |-> << ServerErrorEnvelope(error_code, message,
                                                     id_val) >>,
                reply |-> EmptyDict, calls |-> <<>>, ran |-> <<"send_error">>]
    /\ UNCHANGED <<table, nextUuid>>
    /\ UNCHANGED <<clientVars, shakeVars, connVars>>

\* MCPLambdaHandler.create_error_response called with these arguments: the
\* envelope is returned
LambdaCreateErrorResponse(error_code, message, id_val) ==
    /\ last' = [host |-> "lambda",
                input |-> ErrorCall(error_code, message, id_val),
                responses |-> << CreateErrorResponse(error_code, message,
                                                     id_val) >>,
                reply |-> CreateErrorResponse(error_code, message, id_val),
                calls |-> <<>>, ran |-> <<"create_error_response">>]
    /\ UNCHANGED <<table, nextUuid>>
    /\ UNCHANGED <<clientVars, shakeVars, connVars>>

\* one call after another, each with arguments of its own
MapperNext ==
    \E error_code \in ErrorKinds, message \in ErrorMessages,
       id_val \in ErrorIds :
       \/ ServerSendError(error_code, message, id_val)
       \/ LambdaCreateErrorResponse(error_code, message, id_val)

(* ------------------------ client: request correlator ------------------- *)
\* the timeout of asyncio.wait_for in send_request, in seconds
RequestTimeout == 30

\* the frames that may reach the client: for every id the client can issue
\* (and one it cannot) a Response with a result and one with an error, a
\* Response with a numeric id, one with a null id, an error without id, and
\* text that is no JSON
ClientFrames ==
    {JsonText(ResultEnvelope(StrId(n), [ok |-> TRUE])) : n \in 1..MaxRequests + 1}
    \cup {JsonText(ServerErrorEnvelope("internal_error", Msg("failed", NoneStr),
                                       StrId(n))) : n \in 1..MaxRequests}
    \cup {JsonText(ResultEnvelope(IntId(1), [ok |-> TRUE])),
          JsonText(ResultEnvelope(NullId, [ok |-> TRUE])),
          JsonText(ServerErrorEnvelope("parse_error",
                                       Msg("Invalid JSON", NoneStr), NullId)),
          Garbage}

NoResponse == EmptyDict
NoEvent == [kind |-> "none", frame |-> Garbage]

\* a send_request call: the id it issued, its future (pending, result or
\* cancelled, and the value set), where the coroutine stands (waiting in
\* wait_for, cancelling after the timeout, done) and how it ended
NewCall(id) ==
    [id |-> id, fut |-> "pending", value |-> NoResponse, pc |-> "waiting",
     outcome |-> "none", got |-> NoResponse]

\* dict without key k
Without(d, k) == [x \in DOMAIN d \ {k} |-> d[x]]
\* dict with d[k] = v
With(d, k, v) == [x \in DOMAIN d \cup {k} |-> IF x = k THEN v ELSE d[x]]

ClientInit ==
    /\ wire = <<>>
    /\ connect_pc = "start"
    /\ request_id = 0
    /\ pending_requests = EmptyDict
    /\ calls = <<>>
    /\ inbox = <<>>
    /\ listener = "running"
    /\ handled = NoEvent

\* the counter left as it is
NextRequestIdStuck(n) == n

\* self.request_id += 1
NextRequestId(n) == n + 1

\* the Request send_request builds: params or {}
RequestOf(id, method, params) ==
    [jsonrpc |-> "2.0", id |-> id, method |-> method, params |-> params]

\* send_request up to its await of wait_for: a new id, its future registered
\* under it, the request sent
SendRequest(method, params) ==
    /\ Len(calls) < MaxRequests
    /\ LET id == StrId(NextRequestId(request_id))
       IN  /\ request_id' = NextRequestId(request_id)
           /\ calls' = Append(calls, NewCall(id))
           /\ pending_requests' = With(pending_requests, id, Len(calls) + 1)
           /\ wire' = Append(wire, RequestOf(id, method, params))
    /\ UNCHANGED <<inbox, listener, handled>>
    /\ UNCHANGED <<hostVars, connVars>>

\* the server (or anything else on the connection) sends a frame
Arrive(frame) ==
    /\ Len(inbox) < MaxInbox
    /\ inbox' = Append(inbox, frame)
    /\ UNCHANGED <<request_id, pending_requests, calls, listener, handled>>
    /\ UNCHANGED <<hostVars, shakeVars, connVars>>

\* the key looked up as str(response["id"])
ResponseKeyAsString(response) ==
    IF response.id.t = "int" THEN StrId(response.id.v) ELSE response.id

\* request_id = response["id"]: the key looked up in pending_requests
ResponseKey(response) == response.id

\* the body of the loop of listen_for_responses for one frame: the pending
\* map and the calls after it, whether the loop goes on, and what it did.
\* future.set_result raises InvalidStateError on a future that is not
\* pending; any exception ends the loop (except Exception).
ListenerStep(frame, pending, cs) ==
    IF frame.t = "garbage"
    THEN [pending |-> pending, calls |-> cs, alive |-> FALSE, kind |-> "failed"]
    ELSE
    LET response == frame.value
    IN  IF "id" \in DOMAIN response
        THEN LET id == ResponseKey(response)
             IN  IF id \in DOMAIN pending
                 THEN LET k == pending[id]
                      IN  IF cs[k].fut = "pending"
                          THEN [pending |-> Without(pending, id),
                                calls |-> [cs EXCEPT ![k].fut = "result",
                                                     ![k].value = response],
                                alive |-> TRUE, kind |-> "resolved"]
                          ELSE [pending |-> Without(pending, id),
                                calls |-> cs,
                                alive |-> FALSE, kind |-> "failed"]
                 ELSE [pending |-> pending, calls |-> cs, alive |-> TRUE,
                       kind |-> "discarded"]
        ELSE [pending |-> pending, calls |-> cs, alive |-> TRUE,
              kind |-> "notification"]

\* listen_for_responses takes the next frame
Listen ==
    /\ listener = "running"
    /\ inbox # <<>>
    /\ LET r == ListenerStep(Head(inbox), pending_requests, calls)
       IN  /\ pending_requests' = r.pending
           /\ calls' = r.calls
           /\ listener' = IF r.alive THEN "running" ELSE "ended"
           /\ handled' = [kind |-> r.kind, frame |-> Head(inbox)]
    /\ inbox' = Tail(inbox)
    /\ UNCHANGED request_id
    /\ UNCHANGED <<hostVars, shakeVars, connVars>>

\* wait_for returns the result of the future to the caller
Return(k) ==
    /\ calls[k].pc = "waiting"
    /\ calls[k].fut = "result"
    /\ calls' = [calls EXCEPT ![k].pc = "done", ![k].outcome = "response",
                              ![k].got = calls[k].value]
    /\ UNCHANGED <<request_id, pending_requests, inbox, listener, handled>>
    /\ UNCHANGED <<hostVars, shakeVars, connVars>>

\* a timeout that runs only while the receive loop runs
TimeoutElapsesOnlyWhileListening(k) ==
    /\ listener = "running"
    /\ calls[k].pc = "waiting"
    /\ calls[k].fut = "pending"
    /\ calls' = [calls EXCEPT ![k].pc = "cancelling", ![k].fut = "cancelled"]
    /\ UNCHANGED <<request_id, pending_requests, inbox, listener, handled>>
    /\ UNCHANGED <<hostVars, shakeVars, connVars>>

\* the timeout of wait_for elapses on a future without result: wait_for
\* cancels the future; the caller resumes in a later turn of the event loop
TimeoutElapses(k) ==
    /\ calls[k].pc = "waiting"
    /\ calls[k].fut = "pending"
    /\ calls' = [calls EXCEPT ![k].pc = "cancelling", ![k].fut = "cancelled"]
    /\ UNCHANGED <<request_id, pending_requests, inbox, listener, handled>>
    /\ UNCHANGED <<hostVars, shakeVars, connVars>>

\* the except clause without the del
PendingAfterTimeoutKept(pending, id) == pending

\* the except clause of send_request: if request_id in pending: del
PendingAfterTimeout(pending, id) ==
    IF id \in DOMAIN pending THEN Without(pending, id) ELSE pending

\* the caller resumes with asyncio.TimeoutError and raises "timed out"
TimeoutRaise(k) ==
    /\ calls[k].pc = "cancelling"
    /\ pending_requests' = PendingAfterTimeout(pending_requests, calls[k].id)
    /\ calls' = [calls EXCEPT ![k].pc = "done", ![k].outcome = "timeout"]
    /\ UNCHANGED <<request_id, inbox, listener, handled>>
    /\ UNCHANGED <<hostVars, shakeVars, connVars>>

ClientNext ==
    \/ SendRequest("tools/list", EmptyDict) /\ UNCHANGED connect_pc
    \/ \E frame \in ClientFrames : Arrive(frame)
    \/ Listen
    \/ \E k \in 1..Len(calls) : Return(k)
    \/ \E k \in 1..Len(calls) : TimeoutElapses(k)
    \/ \E k \in 1..Len(calls) : TimeoutRaise(k)

(* ------------------ client: the connection goes away ------------------ *)
\* the frames the server sends in this part: the Response to each request
\* the client can issue, and text that is no JSON
WaitFrames ==
    {JsonText(ResultEnvelope(StrId(n), [ok |-> TRUE])) : n \in 1..MaxRequests}
    \cup {Garbage}

\* the peer closes the connection: the async for of listen_for_responses
\* ends (or raises ConnectionClosed) once the frames received before are
\* taken; a loop that has ended before stays ended
ConnectionCloses ==
    /\ listener \in {"running", "ended"}
    /\ listener = "running" => inbox = <<>>
    /\ listener' = "closed"
    /\ UNCHANGED <<request_id, pending_requests, calls, inbox, handled>>
    /\ UNCHANGED <<hostVars, shakeVars, connVars>>

\* send_request when websocket.send raises: the future was registered
\* before the send, the send is outside the try, nothing removes the entry
PendingAfterSendFailure(pending, id, k) == With(pending, id, k)

\* send_request on a connection that is closed: websocket.send raises
\* ConnectionClosed, which leaves send_request
SendRequestFails(method, params) ==
    /\ listener = "closed"
    /\ Len(calls) < MaxRequests
    /\ LET id == StrId(NextRequestId(request_id))
       IN  /\ request_id' = NextRequestId(request_id)
           /\ calls' = Append(calls, [NewCall(id) EXCEPT
                                        !.pc = "done",
                                        !.outcome = "send_failed"])
           /\ pending_requests' =
                 PendingAfterSendFailure(pending_requests, id, Len(calls) + 1)
    /\ UNCHANGED <<inbox, listener, handled>>
    /\ UNCHANGED <<hostVars, shakeVars, connVars>>

\* the client on a connection that the peer may close at any time
WaitNext ==
    \/ listener # "closed" /\ SendRequest("tools/list", EmptyDict)
                           /\ UNCHANGED connect_pc
    \/ SendRequestFails("tools/list", EmptyDict)
    \/ \E frame \in WaitFrames : listener # "closed" /\ Arrive(frame)
    \/ Listen
    \/ ConnectionCloses
    \/ \E k \in 1..Len(calls) : Return(k)
    \/ \E k \in 1..Len(calls) : TimeoutElapses(k)
    \/ \E k \in 1..Len(calls) : TimeoutRaise(k)

\* the event loop runs every coroutine that is ready and every timer that
\* is due: a caller whose future has a result resumes, the timeout of
\* wait_for fires, the caller resumes after it
WaitFairness ==
    \A k \in 1..MaxRequests :
        /\ WF_vars(k <= Len(calls) /\ Return(k))
        /\ WF_vars(k <= Len(calls) /\ TimeoutElapses(k))
        /\ WF_vars(k <= Len(calls) /\ TimeoutRaise(k))

(* ------------------- client: connect and the handshake ----------------- *)
\* the params of the initialize Request
InitializeParams ==
    [protocolVersion |-> PROTOCOL_VERSION,
     capabilities |-> [experimental |-> EmptyDict],
     clientInfo |-> [name |-> "AWS MCP Customer Support Client",
                     version |-> "1.0.0"]]

\* the Notification send_notification builds
NotificationOf(method, params) ==
    [jsonrpc |-> "2.0", method |-> method, params |-> params]

\* the frames that may reach a connecting client: those of ClientFrames and
\* a Response for the first id that carries neither result nor error
ConnectFrames ==
    ClientFrames \cup {JsonText([jsonrpc |-> "2.0", id |-> StrId(1)])}

\* connect: the receive loop is started and initialize sends its Request
Connect ==
    /\ connect_pc = "start"
    /\ SendRequest("initialize", InitializeParams)
    /\ connect_pc' = "initializing"

\* initialize goes on whatever the Response says
InitializeProceedsAlways(response) == TRUE

\* initialize goes on unless the Response carries an error
InitializeProceeds(response) == "error" \notin DOMAIN response

\* initialize after its send_request has ended: the timeout error and an
\* error Response end connect with an exception; otherwise the
\* notification is sent and response["result"] is returned (a KeyError
\* without it)
InitializeResume ==
    /\ connect_pc = "initializing"
    /\ calls[1].pc = "done"
    /\ IF calls[1].outcome = "timeout"
       THEN /\ connect_pc' = "failed"
            /\ wire' = wire
       ELSE IF ~InitializeProceeds(calls[1].got)
       THEN /\ connect_pc' = "failed"
            /\ wire' = wire
       ELSE /\ wire' = Append(wire, NotificationOf("notifications/initialized",
                                                   EmptyDict))
            /\ connect_pc' = IF "result" \in DOMAIN calls[1].got
                             THEN "connected" ELSE "failed"
    /\ UNCHANGED clientVars
    /\ UNCHANGED <<hostVars, connVars>>

\* a caller of the connected client issues a request
ConnectedRequest ==
    /\ connect_pc = "connected"
    /\ SendRequest("tools/list", EmptyDict)
    /\ UNCHANGED connect_pc

ConnectNext ==
    \/ Connect
    \/ InitializeResume
    \/ ConnectedRequest
    \/ \E frame \in ConnectFrames : Arrive(frame)
    \/ Listen
    \/ \E k \in 1..Len(calls) : Return(k)
    \/ \E k \in 1..Len(calls) : TimeoutElapses(k)
    \/ \E k \in 1..Len(calls) : TimeoutRaise(k)

(* ---------------- persistent server: connections and loops ------------- *)
\* the connections that may open
Conns == 1..MaxConns

\* the frames that arrive on the connections: initialize, tools/list, a chat
\* (Conversation Store and Model Backend), resources/read with params that
\* are no object (the handler raises AttributeError), a history call without
\* conversation_id (the tool raises ValueError)
ConnFrames ==
    {JsonText([jsonrpc |-> "2.0", id |-> IntId(2), method |-> "initialize"]),
     JsonText([jsonrpc |-> "2.0", id |-> IntId(2), method |-> "tools/list"]),
     JsonText([jsonrpc |-> "2.0", id |-> IntId(2), method |-> "tools/call",
               params |-> [name |-> "chat_with_ai",
                           arguments |-> [message |-> "hi",
                                          conversation_id |-> "c1",
                                          user_id |-> "u1"]]]),
     JsonText([jsonrpc |-> "2.0", id |-> IntId(2), method |-> "resources/read",
               params |-> NonDict]),
     JsonText([jsonrpc |-> "2.0", id |-> IntId(2), method |-> "tools/call",
               params |-> [name |-> "get_conversation_history",
                           arguments |-> EmptyDict]])}

\* the environments of a handling on a connection: the Model Backend answers
\* or fails, the Conversation Store works
ConnEnvsFor(data) ==
    {env \in EnvsFor(data) :
        env.query = "ok" /\ env.put = "ok" /\ env.backend \in {"ok", "raise"}}

NoTask == [conn |-> 0, n |-> 0]
TaskId(t) == [conn |-> t.conn, n |-> t.n]

RECURSIVE ArrivedUpTo(_)
\* the frames that have arrived on the connections 1..c
ArrivedUpTo(c) == IF c = 0 THEN 0 ELSE arrived[c] + ArrivedUpTo(c - 1)

ConnInit ==
    /\ clients = {}
    /\ closed = {}
    /\ loop = [c \in Conns |-> "absent"]
    /\ inq = [c \in Conns |-> <<>>]
    /\ arrived = [c \in Conns |-> 0]
    /\ tasks = {}
    /\ blocked = NoTask
    /\ log = [c \in Conns |-> <<>>]

\* websockets.serve starts handle_client for a new connection:
\* self.clients.add(websocket), then the loop waits for a message
Accept(c) ==
    /\ loop[c] = "absent"
    /\ \A b \in 1..(c - 1) : loop[b] # "absent"
    /\ clients' = clients \cup {c}
    /\ loop' = [loop EXCEPT ![c] = "receiving"]
    /\ UNCHANGED <<closed, inq, arrived, tasks, blocked, log>>
    /\ UNCHANGED <<hostVars, clientVars, shakeVars>>

\* a frame of the peer arrives on an open connection
Deliver(c, frame) ==
    /\ loop[c] \in {"receiving", "handling"}
    /\ c \notin closed
    /\ ArrivedUpTo(MaxConns) < MaxArrivals
    /\ arrived' = [arrived EXCEPT ![c] = @ + 1]
    /\ inq' = [inq EXCEPT ![c] = Append(@, [n |-> arrived[c] + 1,
                                            frame |-> frame])]
    /\ UNCHANGED <<clients, closed, loop, tasks, blocked, log>>
    /\ UNCHANGED <<hostVars, clientVars, shakeVars>>

\* process_message started as a task of its own: the loop goes on at once
ProcessMessageAsTask(c) == loop[c] \in {"receiving", "handling"}

\* await self.process_message(...) in the loop of handle_client: the loop
\* asks for the next message only when process_message has returned
AwaitsProcessMessage(c) == loop[c] = "receiving"

\* the try/except around process_message in handle_client
HandleClientTry(h) ==
    IF h.raised
    THEN Out(h.sent \o << ServerErrorEnvelope("internal_error", h.val,
                                              NullId) >>,
             FALSE, NoExc, h.calls, h.table, h.uuid, h.ran)
    ELSE h

\* a thread that is taken to be free whatever it is doing
ThreadFreeAlways(b) == TRUE

\* the thread of the event loop is inside no synchronous boto3 call: only
\* then can any coroutine of the server run
ThreadFree(b) == b = NoTask

\* the loop takes the oldest frame and process_message runs up to its
\* first suspension: the send of the Response, or, when the handler reaches
\* a collaborator, the synchronous boto3 call, in which the thread of the
\* event loop stays until the call returns; the table holds at most turns
\* items
TakeUpTo(c, env, turns) ==
    /\ AwaitsProcessMessage(c)
    /\ ThreadFree(blocked)
    /\ inq[c] # <<>>
    /\ LET m == Head(inq[c])
           h == HandleClientTry(
                    ServerProcessMessage(m.frame, table, nextUuid, env))
           t == [conn |-> c, n |-> m.n, input |-> m.frame, h |-> h,
                 stage |-> IF h.calls = <<>> THEN "sending" ELSE "blocked"]
       IN  /\ Len(h.table) <= turns
           /\ h.uuid <= turns
           /\ tasks' = tasks \cup {t}
           /\ blocked' = IF h.calls = <<>> THEN NoTask ELSE TaskId(t)
    /\ inq' = [inq EXCEPT ![c] = Tail(@)]
    /\ loop' = [loop EXCEPT ![c] = "handling"]
    /\ UNCHANGED <<clients, closed, arrived, log>>
    /\ UNCHANGED <<hostVars, clientVars, shakeVars>>

\* the same within the bounds of the model
Take(c, env) == TakeUpTo(c, env, MaxItems)

\* the collaborator calls of the handler return: the item is in the table,
\* the thread is free again, the Response is about to be sent
Unblock ==
    /\ blocked # NoTask
    /\ LET t == CHOOSE x \in tasks : TaskId(x) = blocked
       IN  /\ table' = t.h.table
           /\ nextUuid' = t.h.uuid
           /\ tasks' = (tasks \ {t}) \cup {[t EXCEPT !.stage = "sending"]}
    /\ blocked' = NoTask
    /\ UNCHANGED <<clients, closed, loop, inq, arrived, log>>
    /\ UNCHANGED <<last, clientVars, shakeVars>>

\* handle_client without its finally clause
ClientsDiscardSkipped(cs, websocket) == cs

\* finally: self.clients.discard(websocket)
ClientsDiscard(cs, websocket) == cs \ {websocket}

\* websocket.send returns and process_message with it. On a connection the
\* peer has closed, send raises ConnectionClosed in the handler and in every
\* send_error on the way out: the loop ends and the finally clause discards
\* the connection.
Sent(t) ==
    /\ t \in tasks
    /\ t.stage = "sending"
    /\ blocked = NoTask
    /\ tasks' = tasks \ {t}
    /\ IF t.conn \in closed /\ t.h.sent # <<>>
       THEN /\ loop' = [loop EXCEPT ![t.conn] = "ended"]
            /\ clients' = ClientsDiscard(clients, t.conn)
            /\ log' = log
       ELSE /\ loop' = [loop EXCEPT ![t.conn] = "receiving"]
            /\ clients' = clients
            /\ log' = [log EXCEPT ![t.conn] =
                          Append(@, [n |-> t.n, input |-> t.input,
                                     sent |-> t.h.sent, ran |-> t.h.ran,
                                     calls |-> t.h.calls])]
    /\ UNCHANGED <<closed, inq, arrived, blocked>>
    /\ UNCHANGED <<hostVars, clientVars, shakeVars>>

\* the peer closes the connection
Close(c) ==
    /\ loop[c] \in {"receiving", "handling"}
    /\ c \notin closed
    /\ closed' = closed \cup {c}
    /\ UNCHANGED <<clients, loop, inq, arrived, tasks, blocked, log>>
    /\ UNCHANGED <<hostVars, clientVars, shakeVars>>

\* the loop, waiting for a message of a closed connection, ends; finally:
\* self.clients.discard(websocket)
LoopEnd(c) ==
    /\ loop[c] = "receiving"
    /\ c \in closed
    /\ inq[c] = <<>>
    /\ blocked = NoTask
    /\ loop' = [loop EXCEPT ![c] = "ended"]
    /\ clients' = ClientsDiscard(clients, c)
    /\ UNCHANGED <<closed, inq, arrived, tasks, blocked, log>>
    /\ UNCHANGED <<hostVars, clientVars, shakeVars>>

ConnNext ==
    \/ \E c \in Conns : Accept(c)
    \/ \E c \in Conns : \E frame \in ConnFrames : Deliver(c, frame)
    \/ \E c \in {x \in Conns : inq[x] # <<>>} :
          \E env \in ConnEnvsFor(Head(inq[c]).frame.value) : Take(c, env)
    \/ Unblock
    \/ \E t \in tasks : Sent(t)
    \/ \E c \in Conns : Close(c)
    \/ \E c \in Conns : LoopEnd(c)

(* ------------- chats on several connections at the same time ---------- *)
\* chat_with_ai Requests: two messages for conversation c1, one for c2
RaceFrames ==
    {ToolCallFrame([name |-> "chat_with_ai",
                    arguments |-> [message |-> "m1", conversation_id |-> "c1"]]),
     ToolCallFrame([name |-> "chat_with_ai",
                    arguments |-> [message |-> "m2", conversation_id |-> "c1"]]),
     ToolCallFrame([name |-> "chat_with_ai",
                    arguments |-> [message |-> "m1", conversation_id |-> "c2"]])}

\* connections that stay open, each with its own loop of handle_client, all
\* on the one event loop of the server; the store works
RaceNext ==
    \/ \E c \in Conns : Accept(c)
    \/ \E c \in Conns : \E frame \in RaceFrames : Deliver(c, frame)
    \/ \E c \in {x \in Conns : inq[x] # <<>>} :
          \E env \in ConnEnvsFor(Head(inq[c]).frame.value) :
             TakeUpTo(c, env, MaxTurns)
    \/ Unblock
    \/ \E t \in tasks : Sent(t)

(* ------------- the client connected to the persistent server ---------- *)
\* the Requests the client issues through send_request: initialize as
\* connect sends it, tools/list, a history call without conversation_id
\* (the tool raises), a chat, and prompts/get with arguments that are no
\* object (the handler raises)
LinkRequests ==
    {[method |-> "initialize", params |-> InitializeParams],
     [method |-> "tools/list", params |-> EmptyDict],
     [method |-> "tools/call",
      params |-> [name |-> "get_conversation_history",
                  arguments |-> EmptyDict]],
     [method |-> "tools/call",
      params |-> [name |-> "chat_with_nova",
                  arguments |-> [message |-> "hi", conversation_id |-> "c1",
                                 user_id |-> "client_user"]]],
     [method |-> "prompts/get",
      params |-> [name |-> "customer_support", arguments |-> NonDict]]}

\* the connection of the client is number 1 of the server
LinkConn == 1

\* the loop of handle_client takes the next frame the client has sent and
\* awaits process_message; what the handler sends travels to the client
LinkServe(env) ==
    /\ loop[LinkConn] = "receiving"
    /\ arrived[LinkConn] < Len(wire)
    /\ LET n == arrived[LinkConn] + 1
           frame == JsonText(wire[n])
           h == HandleClientTry(
                    ServerProcessMessage(frame, table, nextUuid, env))
       IN  /\ WithinBounds(h)
           /\ Len(inbox) + Len(h.sent) <= MaxInbox
           /\ table' = h.table
           /\ nextUuid' = h.uuid
           /\ inbox' = inbox \o [i \in 1..Len(h.sent) |-> JsonText(h.sent[i])]
           /\ arrived' = [arrived EXCEPT ![LinkConn] = n]
           /\ log' = [log EXCEPT ![LinkConn] =
                         Append(@, [n |-> n, input |-> frame,
                                    sent |-> h.sent, ran |-> h.ran,
                                    calls |-> h.calls])]
    /\ UNCHANGED <<last, clients, closed, loop, inq, tasks, blocked>>
    /\ UNCHANGED <<request_id, pending_requests, calls, listener, handled>>
    /\ UNCHANGED shakeVars

\* the client and the server on one connection that stays open
LinkNext ==
    \/ Accept(LinkConn)
    \/ \E r \in LinkRequests :
          /\ loop[LinkConn] = "receiving"
          /\ SendRequest(r.method, r.params)
          /\ UNCHANGED connect_pc
    \/ \E env \in ConnEnvsFor(IF arrived[LinkConn] < Len(wire)
                                THEN wire[arrived[LinkConn] + 1]
                                ELSE EmptyDict) : LinkServe(env)
    \/ Listen
    \/ \E k \in 1..Len(calls) : Return(k)
    \/ \E k \in 1..Len(calls) : TimeoutElapses(k)
    \/ \E k \in 1..Len(calls) : TimeoutRaise(k)

(* ------------------------------ specifications ------------------------- *)
Init == HostInit /\ ClientInit /\ ConnInit

\* the two hosts; the client stands by
Next == HostNext
Spec == Init /\ [][Next]_vars

\* the client against an arbitrary peer; the hosts stand by
ClientSpec == Init /\ [][ClientNext]_vars

\* the client from connect on, against an arbitrary peer
ConnectSpec == Init /\ [][ConnectNext]_vars

\* the persistent server with its connections
ConnSpec == Init /\ [][ConnNext]_vars

\* the error envelopes of both hosts, built for arbitrary kinds
MapperSpec == Init /\ [][MapperNext]_vars

\* the persistent server serving chats one after another, the store working
ChatSpec == Init /\ [][ChatNext]_vars

\* the client on a connection that may close, the event loop running
WaitSpec == Init /\ [][WaitNext]_vars /\ WaitFairness

\* the client connected to the persistent server
LinkSpec == Init /\ [][LinkNext]_vars

\* chats arriving on several connections of the persistent server
RaceSpec == Init /\ [][RaceNext]_vars

(* =============================== claims ================================ *)
\* the JSON value of the message just handled
LastData == last.input.value
\* the message just handled, on either host, was a Request
HandledRequest ==
    /\ last.host \in {"server", "lambda"}
    /\ last.input.t = "json"
    /\ IsRequest(LastData)
LastParams == Get(LastData, "params", EmptyDict)
LastArguments == Get(LastParams, "arguments", EmptyDict)
\* exactly one envelope was produced and it is an error with this code
AnsweredWithError(code) ==
    /\ Len(last.responses) = 1
    /\ "error" \in DOMAIN last.responses[1]
    /\ "result" \notin DOMAIN last.responses[1]
    /\ last.responses[1].error.code = code
CalledOps == {last.calls[i].op : i \in 1..Len(last.calls)}

\* C1: every Response produced for a Request, result or error, on either
\* host, carries an id equal to the Request's id in value and in type.
C1_ResponseIdEqualsRequestId ==
    HandledRequest =>
        \A i \in 1..Len(last.responses) :
            /\ "id" \in DOMAIN last.responses[i]
            /\ last.responses[i].id = LastData.id

\* C2: a Notification (a method, no id) never makes the persistent server
\* send anything on the connection.
C2_NotificationGetsNoReply ==
    (/\ last.host = "server"
     /\ last.input.t = "json"
     /\ IsNotification(LastData))
    => last.responses = <<>>

\* C3: a Request whose method is none of the nine catalog methods is
\* answered, on both hosts, by one error Response with code -32601 whose
\* message names the method; no handler runs and no collaborator is called.
C3_UnknownMethodNotFound ==
    (HandledRequest /\ LastData.method \notin CatalogMethods) =>
        /\ AnsweredWithError(-32601)
        /\ last.responses[1].error.message.arg = LastData.method
        /\ last.ran = <<>>
        /\ last.calls = <<>>

\* C3 witness: the server has answered the Request "foo/bar" with -32601
C3_Witness ==
    /\ HandledRequest
    /\ last.host = "server"
    /\ LastData.method = "foo/bar"
    /\ LastData.id = StrId(2)
    /\ AnsweredWithError(-32601)

\* C4: tools/call of get_conversation_history without conversation_id (or
\* with an empty one) is answered with the InvalidParams code -32602 on
\* both hosts, and the conversation store is not queried.
C4_MissingConversationIdInvalidParams ==
    (/\ HandledRequest
     /\ LastData.method = "tools/call"
     /\ IsDict(LastParams)
     /\ Get(LastParams, "name", NoneStr) = "get_conversation_history"
     /\ IsDict(LastArguments)
     /\ Falsy(Get(LastArguments, "conversation_id", NoneStr)))
    => /\ AnsweredWithError(-32602)
       /\ "query" \notin CalledOps

\* C5: chat_with_ai without message, and prompts/get customer_support
\* without customer_issue, are answered with the InvalidParams code -32602;
\* the Model Backend is not called and nothing is appended to the store.
C5_MissingRequiredArgumentInvalidParams ==
    (/\ HandledRequest
     /\ IsDict(LastParams)
     /\ IsDict(LastArguments)
     /\ \/ /\ LastData.method = "tools/call"
           /\ Get(LastParams, "name", NoneStr) = "chat_with_ai"
           /\ "message" \notin DOMAIN LastArguments
        \/ /\ LastData.method = "prompts/get"
           /\ Get(LastParams, "name", NoneStr) = "customer_support"
           /\ "customer_issue" \notin DOMAIN LastArguments)
    => /\ AnsweredWithError(-32602)
       /\ "backend" \notin CalledOps
       /\ "put" \notin CalledOps

\* C6: an unknown tool name, a resource URI other than conversation://history
\* and a prompt name other than customer_support are each answered, on both
\* hosts, with the InvalidRequest code -32600 and the Request's id.
C6_UnknownNameInvalidRequest ==
    (/\ HandledRequest
     /\ IsDict(LastParams)
     /\ \/ /\ LastData.method = "tools/call"
           /\ "name" \in DOMAIN LastParams
           /\ LastParams.name \notin {"chat_with_ai", "chat_with_nova",
                                      "get_conversation_history"}
        \/ /\ LastData.method = "resources/read"
           /\ "uri" \in DOMAIN LastParams
           /\ LastParams.uri # HISTORY_URI
        \/ /\ LastData.method = "prompts/get"
           /\ "name" \in DOMAIN LastParams
           /\ LastParams.name # "customer_support")
    => /\ AnsweredWithError(-32600)
       /\ "id" \in DOMAIN last.responses[1]
       /\ last.responses[1].id = LastData.id

\* the receive loop takes the frame at the head of the inbox in this step
ListenerTakes ==
    /\ listener = "running"
    /\ inbox # <<>>
    /\ inbox' = Tail(inbox)
\* the frame at the head of the inbox is a Response (it carries an id)
HeadIsResponse ==
    /\ inbox # <<>>
    /\ Head(inbox).t = "json"
    /\ "id" \in DOMAIN Head(inbox).value
\* the ids issued so far
IssuedIds == {calls[k].id : k \in 1..Len(calls)}
\* the number an issued id is the decimal string of
IdNumber(id) == CHOOSE n \in 0..(MaxRequests + 1) : StrId(n) = id

\* C7: a Response whose id is no key of pending_requests (never issued,
\* already resolved, or a number where the issued id is a string) is
\* discarded: the receive loop keeps running, pending_requests and every
\* call (its future, its outcome) stay as they are.
C7_OrphanResponseDiscarded ==
    [][(/\ ListenerTakes
        /\ HeadIsResponse
        /\ Head(inbox).value.id \notin DOMAIN pending_requests)
       => /\ listener' = "running"
          /\ pending_requests' = pending_requests
          /\ calls' = calls]_vars

\* C7 witness: the Response with the number 1 as id was discarded while the
\* request with the string "1" as id is still pending, its future unresolved
C7_Witness ==
    /\ handled.kind = "discarded"
    /\ handled.frame.value.id = IntId(1)
    /\ listener = "running"
    /\ StrId(1) \in DOMAIN pending_requests
    /\ calls[pending_requests[StrId(1)]].fut = "pending"
    /\ calls[pending_requests[StrId(1)]].pc = "waiting"

\* C8: a call whose timeout elapsed ends with the timeout error and without
\* a Response, and its id is then no key of pending_requests; a Response for
\* the id of a timed-out call that the receive loop takes afterwards changes
\* neither pending_requests nor any call, nor does it end the loop.
C8_TimeoutRemovesAndLateResponseDiscarded ==
    /\ [](\A k \in 1..Len(calls) :
            calls[k].outcome = "timeout" =>
                /\ calls[k].id \notin DOMAIN pending_requests
                /\ calls[k].got = NoResponse)
    /\ [][\A k \in 1..Len(calls) :
            /\ (calls[k].pc = "cancelling" /\ calls'[k] # calls[k])
               => /\ calls'[k].outcome = "timeout"
                  /\ calls[k].id \notin DOMAIN pending_requests'
            /\ (/\ calls[k].outcome = "timeout"
                /\ ListenerTakes
                /\ HeadIsResponse
                /\ Head(inbox).value.id = calls[k].id)
               => /\ listener' = "running"
                  /\ pending_requests' = pending_requests
                  /\ calls' = calls]_vars

\* C8 witness: a call has timed out and the Response that arrived for its id
\* afterwards has been discarded
C8_Witness ==
    \E k \in 1..Len(calls) :
        /\ calls[k].outcome = "timeout"
        /\ calls[k].got = NoResponse
        /\ handled.kind = "discarded"
        /\ handled.frame.value.id = calls[k].id
        /\ listener = "running"

\* C9: the id of the k-th send_request is the decimal string of a counter
\* value greater than that of every earlier id; no two calls share an id,
\* and every key of pending_requests is an issued id.
C9_IdsIncreaseAndAreUnique ==
    /\ \A k \in 1..Len(calls) :
          /\ calls[k].id \in {StrId(n) : n \in 1..request_id}
          /\ \A j \in 1..(k - 1) :
                /\ IdNumber(calls[j].id) < IdNumber(calls[k].id)
                /\ calls[j].id # calls[k].id
    /\ DOMAIN pending_requests \subseteq IssuedIds

\* C9 witness: two send_request calls are in flight at once, each pending
\* under its own id
C9_Witness ==
    /\ Len(calls) >= 2
    /\ calls[1].pc = "waiting" /\ calls[2].pc = "waiting"
    /\ calls[1].id \in DOMAIN pending_requests
    /\ calls[2].id \in DOMAIN pending_requests
    /\ pending_requests[calls[1].id] = 1
    /\ pending_requests[calls[2].id] = 2

\* C10: when the receive loop takes a Response whose id is a key of
\* pending_requests, the entry is removed and the future of exactly that
\* call receives the whole Response, whether it carries a result or an error.
C10_MatchedResponseReachesItsWaiter ==
    [][(/\ ListenerTakes
        /\ HeadIsResponse
        /\ Head(inbox).value.id \in DOMAIN pending_requests)
       => LET k == pending_requests[Head(inbox).value.id]
          IN  /\ Head(inbox).value.id \notin DOMAIN pending_requests'
              /\ calls'[k].fut = "result"
              /\ calls'[k].value = Head(inbox).value
              /\ listener' = "running"]_vars

(* ------------------- claims about the connections ---------------------- *)
\* the method of a frame that carries a JSON object with a method
MethodOf(frame) ==
    IF frame.t = "json" /\ IsDict(frame.value)
    THEN Get(frame.value, "method", NoneStr)
    ELSE NoneStr
\* the collaborators a finished or running call reached
OpsOf(cs) == {cs[i].op : i \in 1..Len(cs)}

\* C11: on one connection the process_message calls run one at a time and
\* in arrival order: the call for frame n is in progress only when the calls
\* for frames 1..n-1 have finished (a call that waits for the Model Backend
\* included), the frames still queued are later ones, and the calls finish,
\* and so send their Responses, in arrival order.
C11_HandledInArrivalOrder ==
    /\ \A c \in Conns : \A i \in 1..Len(log[c]) : log[c][i].n = i
    /\ \A t \in tasks : t.n = Len(log[t.conn]) + 1
    /\ \A t, u \in tasks : t.conn = u.conn => t = u
    /\ \A c \in Conns : \A i \in 1..Len(inq[c]) :
          /\ inq[c][i].n > Len(log[c])
          /\ \A t \in tasks : t.conn = c => inq[c][i].n > t.n
          /\ \A j \in 1..(i - 1) : inq[c][j].n < inq[c][i].n

\* C11 witness: tools/list arrived on a connection while the chat before it
\* was held up in the Model Backend, and it waits in the queue
C11_Witness ==
    \E t \in tasks :
        /\ t.stage = "blocked"
        /\ "backend" \in OpsOf(t.h.calls)
        /\ inq[t.conn] # <<>>
        /\ MethodOf(Head(inq[t.conn]).frame) = "tools/list"
        /\ Head(inq[t.conn]).n = t.n + 1

\* C12: the loops of different connections are independent: while a Model
\* Backend call made for a frame of one connection is outstanding, the loop
\* of another connection that waits for a message can take a frame that has
\* arrived for it (tools/list here, which needs no collaborator).
C12_OtherConnectionServedDuringBackendCall ==
    \A t \in tasks : \A b \in Conns :
        (/\ t.stage = "blocked"
         /\ "backend" \in OpsOf(t.h.calls)
         /\ b # t.conn
         /\ loop[b] = "receiving"
         /\ inq[b] # <<>>
         /\ MethodOf(Head(inq[b]).frame) = "tools/list")
        => ENABLED (\E env \in ConnEnvsFor(Head(inq[b]).frame.value) :
                        Take(b, env))

(* ------------------ claims about the hosts, continued ------------------ *)
\* the Request just handled names a tool, resource or prompt that no
\* catalog holds
UnknownNameRequested ==
    /\ IsDict(LastParams)
    /\ \/ /\ LastData.method = "tools/call"
          /\ "name" \in DOMAIN LastParams
          /\ LastParams.name \notin {"chat_with_ai", "chat_with_nova",
                                     "get_conversation_history"}
       \/ /\ LastData.method = "resources/read"
          /\ "uri" \in DOMAIN LastParams
          /\ LastParams.uri # HISTORY_URI
       \/ /\ LastData.method = "prompts/get"
          /\ "name" \in DOMAIN LastParams
          /\ LastParams.name # "customer_support"
\* the Request just handled lacks the conversation_id its tool requires
ConversationIdMissing ==
    /\ LastData.method = "tools/call"
    /\ IsDict(LastParams)
    /\ Get(LastParams, "name", NoneStr) = "get_conversation_history"
    /\ IsDict(LastArguments)
    /\ "conversation_id" \notin DOMAIN LastArguments

\* C13: an invocation of the Lambda host with a Request that names an
\* unknown method, an unknown tool, resource or prompt, or that lacks a
\* required argument, returns a transport reply made of the status 200, the
\* fixed headers and a JSON body that holds the error; so does a successful
\* one with its result; no other status than 200 and 500 is returned.
C13_LambdaReplyStatus ==
    (last.host = "lambda" /\ HandledRequest) =>
        /\ (\/ LastData.method \notin CatalogMethods
            \/ UnknownNameRequested
            \/ ConversationIdMissing
            \/ "result" \in DOMAIN last.responses[1])
           => /\ DOMAIN last.reply = {"statusCode", "headers", "body"}
              /\ last.reply.headers = ReplyHeaders
              /\ last.reply.statusCode = 200
        /\ "statusCode" \in DOMAIN last.reply
           => last.reply.statusCode \in {200, 500}

\* C14: a payload that is not well-formed JSON is answered, on both hosts,
\* by one error Response with the code -32700 and the id null; no handler
\* runs and no collaborator is called.
C14_BadJsonParseError ==
    (last.host \in {"server", "lambda"} /\ last.input.t = "garbage") =>
        /\ AnsweredWithError(-32700)
        /\ "id" \in DOMAIN last.responses[1]
        /\ last.responses[1].id = NullId
        /\ last.ran = <<>>
        /\ last.calls = <<>>

\* the JSON value just handled is structurally no Envelope: no object, a
\* method together with a result or an error, or, without a method, not
\* exactly one of result and error
StructurallyInvalid ==
    \/ ~IsDict(LastData)
    \/ /\ "method" \in DOMAIN LastData
       /\ \/ "result" \in DOMAIN LastData
          \/ "error" \in DOMAIN LastData
    \/ /\ "method" \notin DOMAIN LastData
       /\ ("result" \in DOMAIN LastData) = ("error" \in DOMAIN LastData)

\* C15: well-formed JSON that is structurally no Envelope is answered by the
\* persistent server with the InvalidRequest code -32600, and no handler is
\* dispatched for it.
C15_InvalidEnvelopeRejected ==
    (/\ last.host = "server"
     /\ last.input.t = "json"
     /\ StructurallyInvalid)
    => /\ AnsweredWithError(-32600)
       /\ last.ran = <<>>
       /\ last.calls = <<>>

(* ------------- claims about the connections, continued ----------------- *)
\* the handler the persistent server selects for the frame raises an
\* exception, whatever the collaborators do: out of the handler, or, in
\* handle_tools_call, out of the tool
HandlerRaises(frame) ==
    /\ frame.t = "json"
    /\ IsDict(frame.value)
    /\ LET data == frame.value
           method == Get(data, "method", NoneStr)
           params == Get(data, "params", EmptyDict)
           id_val == Get(data, "id", NullId)
           name == Get(params, "name", NoneStr)
           arguments == Get(params, "arguments", EmptyDict)
       IN  \A env \in Envs :
              \/ ServerDispatch(method, params, id_val, <<>>, 0, env).raised
              \/ /\ method = "tools/call"
                 /\ IsDict(params)
                 /\ \/ /\ name \in {"chat_with_ai", "chat_with_nova"}
                       /\ ToolChatWithAi("server", arguments, <<>>, 0,
                                         env).raised
                    \/ /\ name = "get_conversation_history"
                       /\ ToolGetConversationHistory(arguments, <<>>, 0,
                                                     env).raised
\* the envelopes are one error Response with the InternalError code
InternalErrorOnly(sent) ==
    /\ Len(sent) = 1
    /\ "error" \in DOMAIN sent[1]
    /\ "result" \notin DOMAIN sent[1]
    /\ sent[1].error.code = -32603

\* C16: a frame whose handler raises is answered by the persistent server
\* with one error Response of code -32603; when its process_message call
\* ends on a connection the peer has not closed, the loop waits for the next
\* message and the connection is still in clients. A loop ends, and a
\* connection leaves clients, only when the peer has closed it.
C16_HandlerExceptionAnsweredLoopGoesOn ==
    /\ [](/\ \A c \in Conns : \A i \in 1..Len(log[c]) :
                HandlerRaises(log[c][i].input)
                    => InternalErrorOnly(log[c][i].sent)
          /\ \A c \in Conns :
                /\ loop[c] = "ended" => c \in closed
                /\ loop[c] \in {"receiving", "handling"} => c \in clients)
    /\ [][\A t \in tasks :
            (/\ t \notin tasks'
             /\ t.stage = "sending"
             /\ HandlerRaises(t.input)
             /\ t.conn \notin closed)
            => /\ loop'[t.conn] = "receiving"
               /\ t.conn \in clients'
               /\ Len(log'[t.conn]) = Len(log[t.conn]) + 1
               /\ InternalErrorOnly(log'[t.conn][Len(log'[t.conn])].sent)]_vars

\* C16 witness: on a connection still served, a frame whose handler raised
\* was answered with -32603 and the tools/list that arrived after it was
\* answered with its result
C16_Witness ==
    \E c \in clients :
        /\ Len(log[c]) = 2
        /\ HandlerRaises(log[c][1].input)
        /\ InternalErrorOnly(log[c][1].sent)
        /\ MethodOf(log[c][2].input) = "tools/list"
        /\ Len(log[c][2].sent) = 1
        /\ "result" \in DOMAIN log[c][2].sent[1]

Uninitialized(c, i) ==
    \A j \in 1..(i - 1) : MethodOf(log[c][j].input) # "initialize"

\* C18: a frame with a method other than initialize that is handled on a
\* connection on which no initialize was handled before is rejected: it is
\* answered with an error and no handler is dispatched for it.
C18_RejectedBeforeInitialize ==
    \A c \in Conns : \A i \in 1..Len(log[c]) :
        (/\ MethodOf(log[c][i].input) \notin {"initialize", NoneStr}
         /\ Uninitialized(c, i))
        => /\ log[c][i].ran = <<>>
           /\ Len(log[c][i].sent) = 1
           /\ "error" \in DOMAIN log[c][i].sent[1]

(* ---------------------- claims about the client ------------------------ *)
\* the i-th message the client sent is the initialized notification
IsInitializedNotification(i) ==
    /\ wire[i].method = "notifications/initialized"
    /\ "id" \notin DOMAIN wire[i]

\* C19: the first message a connecting client sends is the initialize
\* Request; notifications/initialized is sent once, second, and only when
\* the initialize call has returned a Response without error (never after
\* an error Response or the timeout); connect has returned, and any other
\* request is sent, only after the notification.
C19_HandshakeInOrder ==
    /\ wire # <<>> =>
          /\ wire[1].method = "initialize"
          /\ "id" \in DOMAIN wire[1]
          /\ wire[1].id = calls[1].id
    /\ \A i \in 1..Len(wire) :
          /\ IsInitializedNotification(i) =>
                /\ i = 2
                /\ calls[1].outcome = "response"
                /\ "error" \notin DOMAIN calls[1].got
          /\ wire[i].method \notin {"initialize", "notifications/initialized"}
                => /\ i > 2
                   /\ IsInitializedNotification(2)
                   /\ connect_pc = "connected"
          /\ wire[i].method = "initialize" => i = 1
    /\ connect_pc = "connected" =>
          /\ Len(wire) >= 2
          /\ IsInitializedNotification(2)
          /\ "result" \in DOMAIN calls[1].got
    /\ (/\ Len(calls) >= 1
        /\ \/ calls[1].outcome = "timeout"
           \/ /\ calls[1].outcome = "response"
              /\ "error" \in DOMAIN calls[1].got)
       => /\ \A i \in 1..Len(wire) : ~IsInitializedNotification(i)
          /\ connect_pc # "connected"

\* C19 witness: the handshake is complete and a tools/list has been sent
\* after it
C19_Witness ==
    /\ connect_pc = "connected"
    /\ Len(wire) = 3
    /\ wire[1].method = "initialize"
    /\ IsInitializedNotification(2)
    /\ wire[3].method = "tools/list"
    /\ calls[1].outcome = "response"

(* ------------------ claims about the hosts, continued ------------------ *)
\* the names of the entries of a tool list, in order
ToolNames(result) == [i \in 1..Len(result.tools) |-> result.tools[i].name]

\* C20: in every reachable state a tools/list Request is answered, on both
\* hosts, by one result whose tools are exactly chat_with_ai and
\* get_conversation_history, in that order, whatever was handled before and
\* whatever the conversation table holds.
C20_ToolsListIsFixed ==
    (HandledRequest /\ LastData.method = "tools/list") =>
        /\ Len(last.responses) = 1
        /\ "result" \in DOMAIN last.responses[1]
        /\ "error" \notin DOMAIN last.responses[1]
        /\ ToolNames(last.responses[1].result)
              = <<"chat_with_ai", "get_conversation_history">>
        /\ last.calls = <<>>

\* C20 witness: after a chat has put a turn into the table, the Lambda host
\* has answered tools/list with the two entries
C20_Witness ==
    /\ HandledRequest
    /\ last.host = "lambda"
    /\ LastData.method = "tools/list"
    /\ table # <<>>
    /\ ToolNames(last.responses[1].result)
          = <<"chat_with_ai", "get_conversation_history">>


(* ------------------ claims about the tools and the store --------------- *)
\* this step is the handling of one message by a host: table and nextUuid
\* are the store and the token counter before it, the primed ones after
Handling == last = NoHandling /\ last' # NoHandling

\* the message just handled was a tools/call Request for the named tool
\* with an object as arguments
HandledToolCall(name) ==
    /\ HandledRequest
    /\ LastData.method = "tools/call"
    /\ IsDict(LastParams)
    /\ Get(LastParams, "name", NoneStr) = name
    /\ IsDict(LastArguments)

\* exactly one envelope was produced and it is a success result
AnsweredWithResult ==
    /\ Len(last.responses) = 1
    /\ DOMAIN last.responses[1] = {"jsonrpc", "id", "result"}

\* the value the tool returned, read back from the text of the result
ToolResult == last.responses[1].result.content[1].text.json

\* the outcome of the collaborator call op in cs, "ok" when it was not made
OutcomeIn(cs, op) ==
    IF \E i \in 1..Len(cs) : cs[i].op = op
    THEN (CHOOSE c \in {cs[i] : i \in 1..Len(cs)} : c.op = op).outcome
    ELSE "ok"

\* the collaborator behaviour the handling just done has met
EnvOfCalls(cs) ==
    [backend |-> OutcomeIn(cs, "backend"), query |-> OutcomeIn(cs, "query"),
     put |-> OutcomeIn(cs, "put")]

\* what the host of the handling just done would have done, from the same
\* store and under the same collaborator behaviour, with the Request data
HostWouldDo(host, data, tb, u, env) ==
    IF host = "server"
    THEN LET h == ServerProcessMessage(JsonText(data), tb, u, env)
         IN  [responses |-> h.sent, table |-> h.table, uuid |-> h.uuid,
              calls |-> h.calls]
    ELSE LET h == LambdaHandler(data, tb, u, env)
         IN  [responses |-> << LambdaEnvelope(h.val) >>, table |-> h.table,
              uuid |-> h.uuid, calls |-> h.calls]

\* C21: a tools/call Request that names chat_with_nova is handled, on both
\* hosts, exactly as the same Request naming chat_with_ai would be from the
\* same store under the same collaborator behaviour: the same Response, the
\* same collaborator calls and the same store afterwards.
C21_NovaAliasBehavesAsChatWithAi ==
    [][(Handling /\ HandledToolCall("chat_with_nova")')
       => LET ai == [LastData' EXCEPT !.params.name = "chat_with_ai"]
              h == HostWouldDo(last'.host, ai, table, nextUuid,
                               EnvOfCalls(last'.calls))
          IN  /\ last'.responses = h.responses
              /\ last'.calls = h.calls
              /\ table' = h.table
              /\ nextUuid' = h.uuid
              /\ AnsweredWithResult'
              /\ DOMAIN ToolResult' =
                    {"conversation_id", "user_id", "response", "timestamp",
                     "context"}]_vars

\* C21 witness: the Lambda host has answered chat_with_nova with a result
\* and has appended the turn to the store
C21_Witness ==
    /\ HandledToolCall("chat_with_nova")
    /\ last.host = "lambda"
    /\ Get(LastArguments, "message", "") = "hi"
    /\ AnsweredWithResult
    /\ Len(table) = 1
    /\ table[1].query = "hi"

\* the collaborator call op among the calls of the handling just done
CallOf(op) == CHOOSE c \in {last.calls[i] : i \in 1..Len(last.calls)} : c.op = op

\* C22: when the Model Backend raises or answers in no recognised shape
\* during a tools/call of chat_with_ai, the Request is answered on both
\* hosts with a success result whose response is the apology text for that
\* fault, and the turn, apology included, is put to the store: where the
\* put works the table grows by exactly that turn.
C22_BackendFaultAnsweredWithApology ==
    [][(/\ Handling
        /\ HandledToolCall("chat_with_ai")'
        /\ OutcomeIn(last'.calls, "backend") \in {"raise", "badshape"})
       => /\ AnsweredWithResult'
          /\ last'.responses[1].id = LastData'.id
          /\ ToolResult'.response =
                (IF OutcomeIn(last'.calls, "backend") = "raise"
                 THEN "I apologize, but I encountered an error while processing your request: "
                 ELSE "I apologize, but I received an unexpected response format. Please try again.")
          /\ "put" \in CalledOps'
          /\ CallOf("put")'.item.response = ToolResult'.response
          /\ CallOf("put")'.item.query = Get(LastArguments', "message", "")
          /\ CallOf("put")'.item.conversation_id = ToolResult'.conversation_id
          /\ (OutcomeIn(last'.calls, "put") = "ok"
                 => table' = Append(table, CallOf("put")'.item))]_vars

\* C22 witness: the backend raised, the server answered chat_with_ai with
\* the apology as a result and the turn with the apology is in the table
C22_Witness ==
    /\ HandledToolCall("chat_with_ai")
    /\ last.host = "server"
    /\ OutcomeIn(last.calls, "backend") = "raise"
    /\ AnsweredWithResult
    /\ ToolResult.response = ApologyError
    /\ Len(table) = 1
    /\ table[1].response = ApologyError

\* the message just handled was a tools/call Request of
\* get_conversation_history with a non-empty conversation_id
HandledHistoryCall ==
    /\ HandledToolCall("get_conversation_history")
    /\ ~Falsy(Get(LastArguments, "conversation_id", NoneStr))

\* C23: a failing table query or a failing put never fails a tool call, on
\* either host: chat_with_ai and get_conversation_history (given a
\* conversation_id) are answered with a success result; when the query
\* failed the Response is the one the host gives from an empty table, and
\* when the put failed the table is left as it was.
C23_StoreFaultsNeverFailAToolCall ==
    [][(/\ Handling
        /\ HandledToolCall("chat_with_ai")' \/ HandledHistoryCall'
        /\ \/ OutcomeIn(last'.calls, "query") = "fail"
           \/ OutcomeIn(last'.calls, "put") = "fail")
       => /\ AnsweredWithResult'
          /\ last'.responses[1].id = LastData'.id
          /\ OutcomeIn(last'.calls, "query") = "fail"
                => last'.responses =
                      HostWouldDo(last'.host, LastData', <<>>, nextUuid,
                                  [EnvOfCalls(last'.calls)
                                      EXCEPT !.query = "ok"]).responses
          /\ IF "put" \in CalledOps' /\ OutcomeIn(last'.calls, "put") = "ok"
             THEN table' = Append(table, CallOf("put")'.item)
             ELSE table' = table]_vars

\* C23 witness: a turn of conversation "c1" is stored, the query for it
\* failed, and get_conversation_history was answered with an empty history
C23_Witness ==
    /\ HandledHistoryCall
    /\ LastArguments.conversation_id = "c1"
    /\ Len(table) = 1
    /\ table[1].conversation_id = "c1"
    /\ OutcomeIn(last.calls, "query") = "fail"
    /\ AnsweredWithResult
    /\ ToolResult.history = <<>>
    /\ ToolResult.total_exchanges = 0

\* the number of turns the table holds under the conversation id
TurnsStoredUnder(tb, conversation_id) ==
    Cardinality({i \in 1..Len(tb) : tb[i].conversation_id = conversation_id})

\* the history call just handled has returned what the claim describes
HistoryCountsStoredTurns ==
    /\ AnsweredWithResult
    /\ last.responses[1].id = LastData.id
    /\ ToolResult.conversation_id = LastArguments.conversation_id
    /\ ToolResult.total_exchanges = Len(ToolResult.history)
    /\ Len(ToolResult.history) =
          TurnsStoredUnder(table, LastArguments.conversation_id)
    /\ \A i \in 1..Len(ToolResult.history) :
          ToolResult.history[i].conversation_id =
             LastArguments.conversation_id

\* C24 as stated: every get_conversation_history Request with a non-empty
\* conversation_id is answered with a success result whose total_exchanges
\* is the length of the returned history and the number of turns stored
\* under that id.
C24_AsStated == HandledHistoryCall => HistoryCountsStoredTurns

\* C24, amended: when the table query succeeds, get_conversation_history
\* with a non-empty conversation_id is answered on both hosts with a success
\* result whose total_exchanges is the length of the returned history and
\* the number of turns stored under that id (0 for an id never used); the
\* call leaves the table alone, and only runs of tool_chat_with_ai add
\* turns to it, one per run.
C24_HistoryCountsStoredTurns ==
    /\ []((HandledHistoryCall /\ OutcomeIn(last.calls, "query") = "ok")
            => HistoryCountsStoredTurns)
    /\ [][/\ (Handling /\ HandledHistoryCall') => table' = table
          /\ table' # table
               => /\ Handling
                  /\ last'.ran = <<"handle_tools_call", "tool_chat_with_ai">>
                  /\ table' = Append(table, CallOf("put")'.item)]_vars

\* C24 witness: one turn is stored under "c1" and the Lambda host has
\* returned it as a history of one exchange
C24_Witness ==
    /\ HandledHistoryCall
    /\ last.host = "lambda"
    /\ LastArguments.conversation_id = "c1"
    /\ OutcomeIn(last.calls, "query") = "ok"
    /\ TurnsStoredUnder(table, "c1") = 1
    /\ AnsweredWithResult
    /\ ToolResult.total_exchanges = 1
    /\ ToolResult.history = << table[1] >>

(* ----------------------- claims about the error mapper ----------------- *)
\* an error envelope has just been built by a direct call
MappedKind == last.ran \in {<<"send_error">>, <<"create_error_response">>}

\* C25: the error envelope either host builds for a kind carries -32700
\* for parse_error, -32600 for invalid_request, -32601 for method_not_found,
\* -32602 for invalid_params, -32603 for internal_error and -32603 for
\* every other kind; the two hosts therefore give the same code for every
\* kind.
C25_ErrorMapperTable ==
    MappedKind =>
        LET kind == LastData.error_code
            code == last.responses[1].error.code
        IN  /\ kind = "parse_error" => code = -32700
            /\ kind = "invalid_request" => code = -32600
            /\ kind = "method_not_found" => code = -32601
            /\ kind = "invalid_params" => code = -32602
            /\ kind = "internal_error" => code = -32603
            /\ kind \notin {"parse_error", "invalid_request",
                             "method_not_found", "invalid_params",
                             "internal_error"} => code = -32603
            /\ code = ServerGetErrorCode(kind)
            /\ code = LambdaGetErrorCode(kind)

\* C25 witness: the Lambda host has built the envelope for the kind
\* "timeout", which is not in the table, with the code -32603
C25_Witness ==
    /\ MappedKind
    /\ last.host = "lambda"
    /\ LastData.error_code = "timeout"
    /\ last.responses[1].error.code = -32603

(* --------------------- claims about sampling/createMessage ------------- *)
\* the message just handled was a sampling/createMessage Request with an
\* object as params
HandledSampling ==
    /\ HandledRequest
    /\ LastData.method = "sampling/createMessage"
    /\ IsDict(LastParams)

\* the text a message carries: its content when that is a string, the text
\* of the first text item when it is a list, none otherwise
TextCarried(msg) ==
    LET content == Get(msg, "content", [t |-> "none"])
    IN  CASE content.t = "str" -> content.text
          [] content.t = "list" ->
               LET texts == {i \in 1..Len(content.items) :
                               Get(content.items[i], "type", NoneStr) = "text"}
               IN  IF texts = {} THEN ""
                   ELSE Get(content.items[CHOOSE i \in texts :
                                             \A j \in texts : i <= j],
                            "text", "")
          [] OTHER -> ""

\* the positions of the user-role messages in the list
UserPositions(messages) ==
    {i \in 1..Len(messages) : Get(messages[i], "role", NoneStr) = "user"}

\* the text of the user-role message nearest to the end of the list
MostRecentUserText(messages) ==
    IF UserPositions(messages) = {} THEN ""
    ELSE TextCarried(messages[CHOOSE i \in UserPositions(messages) :
                                \A j \in UserPositions(messages) : j <= i])

LastMessages == Get(LastParams, "messages", <<>>)

\* C26 as stated, its last part: whenever the list holds a user-role message
\* with text, the sampling/createMessage Request succeeds.
C26_AsStated ==
    (/\ HandledSampling
     /\ \E i \in UserPositions(LastMessages) :
           TextCarried(LastMessages[i]) # "")
    => AnsweredWithResult

\* C26, amended: sampling/createMessage neither reads nor writes the store
\* on either host; when the user-role message nearest to the end of the
\* list carries text, that text is sent to the Model Backend as the one
\* user message, with no turn of any conversation before it, and the
\* Request is answered with one assistant-role text message holding what
\* call_bedrock_model returned; otherwise the Request fails and the backend
\* is not called.
C26_SamplingForwardsMostRecentUserText ==
    /\ [](HandledSampling =>
            /\ "query" \notin CalledOps
            /\ "put" \notin CalledOps
            /\ IF MostRecentUserText(LastMessages) # ""
               THEN /\ AnsweredWithResult
                    /\ last.responses[1].id = LastData.id
                    /\ last.responses[1].result.role = "assistant"
                    /\ last.responses[1].result.content.type = "text"
                    /\ Len(last.calls) = 1
                    /\ last.calls[1].op = "backend"
                    /\ LET body == last.calls[1].body
                       IN  /\ body[Len(body)] =
                                [role |-> "user",
                                 content |-> MostRecentUserText(LastMessages)]
                           /\ \A i \in 1..(Len(body) - 1) :
                                 body[i].role = "system"
                    /\ last.responses[1].result.content.text =
                          (CASE last.calls[1].outcome = "ok" -> ReplyText
                             [] last.calls[1].outcome = "badshape" ->
                                  ApologyFormat
                             [] OTHER -> ApologyError)
               ELSE /\ Len(last.responses) = 1
                    /\ "error" \in DOMAIN last.responses[1]
                    /\ last.calls = <<>>)
    /\ [][(Handling /\ HandledSampling') => table' = table]_vars

\* C26 witness: with a turn in the store, the server was asked to sample
\* from a list whose last user-role message is "second", sent "second"
\* after its system prompt only, and answered with an assistant message
C26_Witness ==
    /\ HandledSampling
    /\ last.host = "server"
    /\ Len(LastMessages) = 4
    /\ MostRecentUserText(LastMessages) = "second"
    /\ table # <<>>
    /\ AnsweredWithResult
    /\ last.responses[1].result.role = "assistant"
    /\ Len(last.calls[1].body) = 2
    /\ last.calls[1].body[2].content = "second"

(* ------------------- claims about successive chats --------------------- *)
\* the turns the table holds under the conversation id, in table order
TurnsUnder(tb, conversation_id) ==
    SelectSeq(tb, LAMBDA it : it.conversation_id = conversation_id)

\* C27: with a working store, every chat_with_ai call on a conversation id
\* appends exactly one turn, at the end of the table, and reports as
\* context.conversation_length the number of turns stored under that id
\* before the call plus one; the table is therefore the record of the calls
\* in the order they were made, the k-th call on an id reports k, and a
\* get_conversation_history that follows returns the k turns in that order.
C27_KthChatReportsK ==
    /\ [][(Handling /\ HandledToolCall("chat_with_ai")')
          => LET cid == LastArguments'.conversation_id
                 before == Len(TurnsUnder(table, cid))
             IN  /\ AnsweredWithResult'
                 /\ Len(table') = Len(table) + 1
                 /\ SubSeq(table', 1, Len(table)) = table
                 /\ table'[Len(table')].conversation_id = cid
                 /\ table'[Len(table')].query = LastArguments'.message
                 /\ table'[Len(table')].response = ToolResult'.response
                 /\ ToolResult'.context.conversation_length = before + 1
                 /\ Len(TurnsUnder(table', cid)) = before + 1]_vars
    /\ [][(Handling /\ ~HandledToolCall("chat_with_ai")') => table' = table]_vars
    /\ [](HandledHistoryCall
            => /\ AnsweredWithResult
               /\ ToolResult.history =
                     TurnsUnder(table, LastArguments.conversation_id)
               /\ ToolResult.total_exchanges = Len(ToolResult.history))

\* C27 witness: three chats were made, "m1" on c1, one on c2, "m2" on c1;
\* the history of c1 was then returned as the two turns "m1", "m2"
C27_Witness ==
    /\ HandledHistoryCall
    /\ LastArguments.conversation_id = "c1"
    /\ Len(table) = 3
    /\ table[2].conversation_id = "c2"
    /\ AnsweredWithResult
    /\ ToolResult.total_exchanges = 2
    /\ ToolResult.history[1].query = "m1"
    /\ ToolResult.history[2].query = "m2"

(* --------------------- claims about the clients set -------------------- *)
\* the connections whose receive loop is running: waiting for a message or
\* inside process_message
RunningLoops == {c \in Conns : loop[c] \in {"receiving", "handling"}}

\* C28: self.clients is at every moment the set of connections whose
\* receive loop is running: a connection enters it when handle_client
\* starts and leaves it when the loop ends, so when the loops of all
\* connections have ended it is empty; and when a Response is ready for a
\* connection the peer has closed meanwhile, the send fails, the Response is
\* dropped, the loop ends in the except clause for ConnectionClosed and the
\* connection leaves the set.
C28_ClientsAreTheRunningLoops ==
    /\ [](/\ clients = RunningLoops
          /\ (\A c \in Conns : loop[c] \in {"absent", "ended"})
                => clients = {})
    /\ [][\A t \in tasks :
            (/\ t.stage = "sending"
             /\ t.conn \in closed
             /\ t.h.sent # <<>>
             /\ t \notin tasks')
            => /\ loop'[t.conn] = "ended"
               /\ t.conn \notin clients'
               /\ log' = log]_vars

\* C28 witness: the peer of a connection closed it while its chat was in
\* the Model Backend; the turn was stored, the Response was dropped, the
\* loop has ended and only the other connection is left in clients
C28_Witness ==
    \E c, d \in Conns :
        /\ c # d
        /\ c \in closed
        /\ loop[c] = "ended"
        /\ log[c] = <<>>
        /\ arrived[c] = 1
        /\ table # <<>>
        /\ clients = {d}

(* ------------------- claims about the two hosts together --------------- *)
\* two answers to one Request agree: each is one Response, both carry the
\* same id, and both are the same result or errors with the same code
SameAnswer(r1, r2) ==
    /\ Len(r1) = 1
    /\ Len(r2) = 1
    /\ "id" \in DOMAIN r1[1]
    /\ "id" \in DOMAIN r2[1]
    /\ r1[1].id = r2[1].id
    /\ \/ /\ "result" \in DOMAIN r1[1]
          /\ "result" \in DOMAIN r2[1]
          /\ r1[1].result = r2[1].result
       \/ /\ "error" \in DOMAIN r1[1]
          /\ "error" \in DOMAIN r2[1]
          /\ r1[1].error.code = r2[1].error.code

\* C29: whenever one host has handled a Request, the other host, given the
\* same Request from the same store under the same collaborator behaviour,
\* answers with a Response of the same id and the same result, or with an
\* error of the same code.  Stated for the methods that are meant to be
\* sent as Requests: notifications/initialized, which the server leaves
\* unanswered even when it carries an id, is set aside.
C29_HostsAnswerAlike ==
    [][(/\ Handling
        /\ HandledRequest'
        /\ LastData'.method # "notifications/initialized")
       => SameAnswer(last'.responses,
                     HostWouldDo(IF last'.host = "server" THEN "lambda"
                                 ELSE "server",
                                 LastData', table, nextUuid,
                                 EnvOfCalls(last'.calls)).responses)]_vars

(* ---------------- claims about the client's receive loop --------------- *)
\* C30: whenever the receive loop takes the Response of a request that is
\* still registered in pending_requests, be it waiting or just timed out,
\* resolving its future raises nothing: the loop keeps running, so that
\* requests issued later can be resolved as well.
C30_TimeoutRaceKeepsLoopRunning ==
    [][(/\ ListenerTakes
        /\ HeadIsResponse
        /\ Head(inbox).value.id \in DOMAIN pending_requests
        /\ calls[pending_requests[Head(inbox).value.id]].pc
              \in {"waiting", "cancelling"})
       => /\ listener' = "running"
          /\ handled'.kind = "resolved" \/ handled'.kind = "discarded"]_vars

(* ------------- claims about the client's pending requests -------------- *)
\* C31: the id of a send_request call that has finished, by returning a
\* Response, by raising on the timeout or by raising because the send
\* failed, is not a key of pending_requests.
C31_FinishedCallsAreNotPending ==
    \A k \in 1..Len(calls) :
        calls[k].pc = "done" => calls[k].id \notin DOMAIN pending_requests

(* ------------- claims about the client and the server together --------- *)
\* C32: on a connection that stays open, once the server has handled the
\* k-th Request of the client and the receive loop of the client has taken
\* everything the server sent, the waiter of that Request is resolved by a
\* Response, unless its timeout has elapsed before: no Request is left to
\* the timeout by the server's answer, a Request whose handling failed
\* included.
C32_ServedRequestResolvesItsWaiter ==
    \A k \in 1..Len(calls) :
        (/\ arrived[LinkConn] >= k
         /\ inbox = <<>>
         /\ listener = "running"
         /\ calls[k].fut # "cancelled")
        => calls[k].fut = "result"

\* C33: every send_request call eventually finishes, by returning a
\* Response or by raising, also when the connection closes or the receive
\* loop has ended while the request is pending: the timeout of wait_for
\* needs no receive loop.
C33_EverySendRequestFinishes ==
    \A k \in 1..MaxRequests :
        (k <= Len(calls)) ~> (k <= Len(calls) /\ calls[k].pc = "done")

\* a call that was left without a Response has raised on the timeout after
\* the connection closed
C33_Witness ==
    \E k \in 1..Len(calls) :
        /\ listener = "closed"
        /\ calls[k].pc = "done"
        /\ calls[k].outcome = "timeout"
        /\ calls[k].id \notin DOMAIN pending_requests

(* ------------- claims about the messages the server sends -------------- *)
\* C34: the persistent server sends at most one message per inbound
\* message and exactly one per Request, on every success and failure path
\* through process_message: never a result followed by an error.
C34_OneMessagePerRequest ==
    last.host = "server" =>
        /\ Len(last.responses) <= 1
        /\ HandledRequest => Len(last.responses) = 1

(* ------------- claims about chats on several connections --------------- *)
\* the chat handlings begun so far: those under way and those answered
HandlingOf(t) ==
    [conn |-> t.conn, n |-> t.n, input |-> t.input, sent |-> t.h.sent]
ChatHandlings ==
    {HandlingOf(t) : t \in tasks}
    \cup UNION {{[conn |-> c, n |-> log[c][i].n, input |-> log[c][i].input,
                  sent |-> log[c][i].sent] : i \in 1..Len(log[c])} :
                    c \in Conns}
ConversationOf(x) == x.input.value.params.arguments.conversation_id
ReportedLength(x) ==
    x.sent[1].result.content[1].text.json.context.conversation_length
BlockedTask == HandlingOf(CHOOSE x \in tasks : TaskId(x) = blocked)

\* C35: chat_with_ai calls for the same conversation_id that are handled at
\* the same time on different connections of one server each append their
\* own turn, and the conversation_length values they report are distinct
\* and equal the number of turns stored under the id once the turn is in
\* the table: no two calls report the same length for one conversation.
C35_ConcurrentChatsReportDistinctLengths ==
    /\ [](\A x \in ChatHandlings : \A y \in ChatHandlings :
            (/\ <<x.conn, x.n>> # <<y.conn, y.n>>
             /\ ConversationOf(x) = ConversationOf(y))
            => ReportedLength(x) # ReportedLength(y))
    /\ [][(blocked # NoTask /\ blocked' = NoTask)
          => LET t == BlockedTask
                 cid == ConversationOf(t)
             IN  /\ Len(table') = Len(table) + 1
                 /\ SubSeq(table', 1, Len(table)) = table
                 /\ table'[Len(table')].conversation_id = cid
                 /\ table'[Len(table')].query =
                       t.input.value.params.arguments.message
                 /\ ReportedLength(t) = Len(TurnsUnder(table', cid))]_vars

\* C35 witness: two chats for c1 are under way on two connections at once,
\* neither answered yet; the first reports 1, the second 2, both turns are
\* in the table
C35_Witness ==
    \E x \in tasks : \E y \in tasks :
        /\ x.conn # y.conn
        /\ x.stage = "sending" /\ y.stage = "sending"
        /\ ConversationOf(x) = "c1" /\ ConversationOf(y) = "c1"
        /\ ReportedLength(HandlingOf(x)) = 1
        /\ ReportedLength(HandlingOf(y)) = 2
        /\ Len(TurnsUnder(table, "c1")) = 2

(* ------------- claims about the context sent to the model -------------- *)
\* the smaller of two numbers
Smaller(a, b) == IF a < b THEN a ELSE b

\* the handling just done has called the Model Backend
CalledBackend == \E i \in 1..Len(last.calls) : last.calls[i].op = "backend"

\* C36: the context of a chat starts with one system message, holds a
\* user/assistant pair for each of at most the last 10 turns of the history
\* in stored order and ends with the current user message, so that a
\* history of n turns gives 2*min(n,10)+2 messages; and this context is the
\* body the host hands to the Model Backend.
C36_ContextIsWhatTheHostSends ==
    [][(/\ Handling
        /\ last'.ran = <<"handle_tools_call", "tool_chat_with_ai">>
        /\ CalledBackend')
       => LET body == CallOf("backend")'.body
              hist == QueryHistory(table, CallOf("query")'.conversation_id,
                                   EnvOfCalls(last'.calls))
              n == Len(hist)
              k == Smaller(n, HistoryLimit)
          IN  /\ Len(body) = 2 * k + 2
              /\ body[1].role = "system"
              /\ \A i \in 1..k :
                    /\ body[2 * i] =
                          [role |-> "user", content |-> hist[n - k + i].query]
                    /\ body[2 * i + 1] =
                          [role |-> "assistant",
                           content |-> hist[n - k + i].response]
              /\ body[Len(body)] =
                    [role |-> "user",
                     content |-> Get(LastArguments', "message", "")]]_vars
====
